---- MODULE Spec2Model ----
(***************************************************************************)
(* State-machine model of the solana-payment-processor program: merchant   *)
(* registration, checkout into escrow, withdrawal, and the subscription    *)
(* engine (subscribe, renew, cancel), together with the fee splitter.      *)
(*                                                                         *)
(* Every instruction is one atomic step (the host ledger commits all of an *)
(* instruction's writes and transfers or none of them), so a handler that  *)
(* returns an error or panics leaves every record and balance as it was:   *)
(* it is a stuttering step, and `last` names the last step that succeeded. *)
(***************************************************************************)
EXTENDS Integers, Sequences, FiniteSets, TLC

(***************************************************************************)
(* Bounds of the model                                                     *)
(***************************************************************************)
\* the clock runs from 0 to MaxTime
MaxTime == 2
\* checkout amounts are drawn from 0..MaxAmount
MaxAmount == 3
\* a renewal is not taken once it would push period_end beyond this
MaxPeriodEnd == 6
\* at most this many zeroed, program-owned accounts are allocated from outside
MaxZeroed == 1
\* the fee splitter is applied to every amount in 0..MaxSplitAmount
MaxSplitAmount == 2000

(***************************************************************************)
(* Program constants                                                       *)
(***************************************************************************)
MIN_FEE_IN_LAMPORTS == 5000
SPONSOR_FEE == 3
PROGRAM_OWNER == "operator"
DEFAULT_DATA == [valid |-> TRUE, has_subscription |-> FALSE,
                 subscription |-> <<"zero", "">>,
                 has_packages |-> FALSE, packages |-> <<>>]

\* u64 and u128, scaled down so that TLC's integers can hold them; as in the
\* program, a u64 times a per-mille rate always fits the wide type
U64 == 2^16
U128 == 2^28

(***************************************************************************)
(* Keys and addresses                                                      *)
(***************************************************************************)
ZeroKey == "zero"
\* the custodial signer: find_program_address(&[PDA_SEED], program_id)
PDA == "pda"
\* keys that sign instructions
Signers == {"alice", "bob", "carol"}
\* keys that register as merchants, and keys that check out
Registrants == {"alice", "carol"}
Payers == {"bob"}
\* every key holds one token account of mint MintA
TokenOwners == Signers \cup {PROGRAM_OWNER}
MintA == "mintA"
MintB == "mintB"
Mints == {MintA, MintB}
OrderIds == {"t"}
\* subscription names, "<id>:<package-name>"; the last has no separator
SubscriptionNames == {"a:t", "b:t", "a:z", "nocolon"}

\* Pubkey::create_with_seed(signer, MERCHANT, program_id)
MerchantAddr(signer) == <<"merchant", signer>>
\* Pubkey::create_with_seed(signer, order_id, program_id)
OrderAddr(signer, order_id) == <<signer, order_id>>
\* Pubkey::create_with_seed(signer, name, program_id)
SubscriptionAddr(signer, name) == <<signer, name>>
\* find_program_address(&[order, spl_token::id(), mint], program_id)
TokenAddr(order, mint) == <<order, mint>>

MerchantAddrs == {MerchantAddr(k) : k \in Registrants}
OrderAddrs == {OrderAddr(k, i) : k \in Payers, i \in OrderIds}
SubscriptionAddrs == {SubscriptionAddr(k, n) : k \in Payers, n \in SubscriptionNames}
TokenAddrs == {TokenAddr(o, m) : o \in OrderAddrs, m \in Mints}
NoOrder == <<"zero", "">>
NoSubscription == <<"zero", "">>
NoToken == <<NoOrder, "">>
NoMerchant == <<"merchant", "zero">>

(***************************************************************************)
(* JSON documents.  A document is modelled by what the deserializers look  *)
(* for in it: whether it is well-formed JSON, and the `subscription` and   *)
(* `packages` keys when it has them.                                       *)
(***************************************************************************)
\* the data of a zeroed account: the empty string, which is not JSON
EmptyData == [valid |-> FALSE, has_subscription |-> FALSE,
              subscription |-> NoSubscription,
              has_packages |-> FALSE, packages |-> <<>>]

\* {"subscription": "<address>"}
OrderSubscriptionDoc(addr) == [valid |-> TRUE, has_subscription |-> TRUE,
                               subscription |-> addr,
                               has_packages |-> FALSE, packages |-> <<>>]

Package(name, duration, price, has_trial, trial, mint) ==
    [name |-> name, duration |-> duration, price |-> price,
     has_trial |-> has_trial, trial |-> trial, mint |-> mint]

\* {"packages": [...]}
PackagesDoc(packages) == [valid |-> TRUE, has_subscription |-> FALSE,
                          subscription |-> NoSubscription,
                          has_packages |-> TRUE, packages |-> packages]

\* a package with a trial period, and a later entry that repeats its name
TrialCatalog == PackagesDoc(<< Package("t", 2, 1, TRUE, 1, MintA),
                               Package("t", 1, 2, FALSE, 0, MintA) >>)
\* a package of zero duration and no trial
FlatCatalog == PackagesDoc(<< Package("t", 0, 4, FALSE, 0, MintA) >>)

\* a catalog without the package "t"
OtherCatalog == PackagesDoc(<< Package("z", 1, 1, FALSE, 0, MintA) >>)

\* a package that costs nothing
FreeCatalog == PackagesDoc(<< Package("t", 1, 0, FALSE, 0, MintA) >>)

\* serde_json::from_str::<OrderSubscription>
ParseOrderSubscription(doc) ==
    IF doc.valid /\ doc.has_subscription
    THEN [ok |-> TRUE, subscription |-> doc.subscription]
    ELSE [ok |-> FALSE, subscription |-> NoSubscription]

\* serde_json::from_str::<Packages>
ParsePackages(doc) ==
    IF doc.valid /\ doc.has_packages
    THEN [ok |-> TRUE, packages |-> doc.packages]
    ELSE [ok |-> FALSE, packages |-> <<>>]

\* name.split(":").collect(): the parts of a subscription name
SplitName(name) ==
    CASE name = "a:t" -> <<"a", "t">>
      [] name = "b:t" -> <<"b", "t">>
      [] name = "a:z" -> <<"a", "z">>
      [] OTHER -> <<name>>

\* a search that keeps the last entry of that name
FindLastPackage(packages, package_name) ==
    LET hits == {i \in 1..Len(packages) : packages[i].name = package_name}
    IN IF hits = {} THEN 0
       ELSE CHOOSE i \in hits : \A j \in hits : i >= j

\* packages.into_iter().find(|package| package.name == package_name):
\* the index of the first entry of that name, 0 when there is none
FindPackage(packages, package_name) ==
    LET hits == {i \in 1..Len(packages) : packages[i].name = package_name}
    IN IF hits = {} THEN 0
       ELSE CHOOSE i \in hits : \A j \in hits : i <= j

(***************************************************************************)
(* Fee splitter                                                            *)
(***************************************************************************)
\* get_amounts with the product formed in 64 bits
get_amounts_narrow(amount, fee_percentage) ==
    IF amount >= 100
    THEN LET possible_fee_amount == ((amount * fee_percentage) % U64) \div 1000
             fee_amount == IF possible_fee_amount > 0
                           THEN possible_fee_amount % U64 ELSE 1
         IN <<(amount - fee_amount) % U64, fee_amount>>
    ELSE <<amount, 0>>

\* get_amounts taking the take-home amount from the unclamped fee
get_amounts_unclamped(amount, fee_percentage) ==
    IF amount >= 100
    THEN LET possible_fee_amount == ((amount * fee_percentage) % U128) \div 1000
             fee_amount == IF possible_fee_amount > 0
                           THEN possible_fee_amount % U64 ELSE 1
         IN <<(amount - (possible_fee_amount % U64)) % U64, fee_amount>>
    ELSE <<amount, 0>>

\* <<take_home_amount, fee_amount>>
get_amounts(amount, fee_percentage) ==
    IF amount >= 100
    THEN LET possible_fee_amount == ((amount * fee_percentage) % U128) \div 1000
             fee_amount == IF possible_fee_amount > 0
                           THEN possible_fee_amount % U64 ELSE 1
         IN <<(amount - fee_amount) % U64, fee_amount>>
    ELSE <<amount, 0>>

(***************************************************************************)
(* State                                                                   *)
(***************************************************************************)
VARIABLES
    now,        \* Clock::unix_timestamp
    merchants,  \* merchant address -> MerchantAccount
    orders,     \* order address -> OrderAccount
    subs,       \* subscription address -> SubscriptionAccount
    escrow,     \* escrow token address -> its owner and token balance
    tokens,     \* owner key -> token balance of that key's token account
    lamports,   \* key -> native balance
    released,   \* escrow token address -> tokens moved out of it so far
    settled,    \* order address -> successful Withdraw and Cancel calls so far
    paid_to,    \* order address -> owners of the token accounts Withdraw credited
    last,       \* the last instruction that succeeded, and its order
    ga          \* the fee splitter's call frame

ledger == <<merchants, orders, subs, escrow, tokens, lamports>>
history == <<released, settled, paid_to>>
vars == <<now, merchants, orders, subs, escrow, tokens, lamports,
          released, settled, paid_to, last, ga>>

\* no account at the address (the system program owns it)
AbsentMerchant == [status |-> "Absent", owner |-> ZeroKey, sponsor |-> ZeroKey,
                   fee |-> 0, data |-> EmptyData]
AbsentOrder == [status |-> "Absent", created |-> 0, modified |-> 0,
                merchant |-> NoMerchant, mint |-> ZeroKey, token |-> NoToken,
                payer |-> ZeroKey, expected_amount |-> 0, paid_amount |-> 0,
                fee_amount |-> 0, order_id |-> "", secret |-> "",
                data |-> EmptyData]
AbsentSubscription == [status |-> "Absent", owner |-> ZeroKey,
                       merchant |-> NoMerchant, name |-> "", joined |-> 0,
                       period_start |-> 0, period_end |-> 0, data |-> EmptyData]
\* an account of this program whose data is still all zero
ZeroedOrder == [AbsentOrder EXCEPT !.status = "Uninitialized"]
ZeroedMerchant == [AbsentMerchant EXCEPT !.status = "Uninitialized"]
\* a token account that was never initialized
AbsentToken == [owner |-> ZeroKey, amount |-> 0]

\* a merchant record taken to be initialized whatever its status
MerchantIsInitializedAlways(merchant_account) == TRUE

\* MerchantAccount::is_initialized
MerchantIsInitialized(merchant_account) == merchant_account.status = "Initialized"

\* an account creation that takes an address whatever is there
AccountInUseNever(account) == FALSE

\* create_account_with_seed fails on an address that holds an account
AccountInUse(account) == account.status # "Absent"

\* `*info.owner == *program_id`
OwnedByProgram(account) == account.status # "Absent"

\* Option<T>
None == [some |-> FALSE, value |-> EmptyData]
Some(v) == [some |-> TRUE, value |-> v]
NoFee == [some |-> FALSE, value |-> 0]
SomeFee(v) == [some |-> TRUE, value |-> v]
NoSponsor == [some |-> FALSE, value |-> ZeroKey]
SomeSponsor(k) == [some |-> TRUE, value |-> k]

\* spl_token transfer of `amount` out of an account with that owner and
\* balance, signed by `authority`
TransferResult(owner, balance, authority, amount) ==
    IF owner # authority THEN "OwnerMismatch"
    ELSE IF balance < amount THEN "InsufficientFunds"
    ELSE "Ok"

\* system_instruction::transfer of `amount` lamports
LamportTransferResult(balance, amount) ==
    IF balance < amount THEN "InsufficientLamports" ELSE "Ok"

Outcome(op, order, result) == [op |-> op, order |-> order, result |-> result]

\* an instruction that returned an error or panicked: nothing persists
Rejected == UNCHANGED vars

\* the payer can afford every checkout but the largest
InitialTokens == MaxAmount - 1
InitialLamports == 2 * MIN_FEE_IN_LAMPORTS
IdleFrame == [pc |-> "idle", amount |-> 0, rate |-> 0, take_home |-> 0, fee |-> 0]

InitAccounts ==
    /\ now = 0
    /\ merchants = [m \in MerchantAddrs |-> AbsentMerchant]
    /\ orders = [o \in OrderAddrs |-> AbsentOrder]
    /\ subs = [s \in SubscriptionAddrs |-> AbsentSubscription]
    /\ escrow = [t \in TokenAddrs |-> AbsentToken]
    /\ tokens = [k \in TokenOwners |-> IF k \in Payers THEN InitialTokens ELSE 0]
    /\ lamports = [k \in TokenOwners |-> IF k \in Payers THEN InitialLamports ELSE 0]
    /\ released = [t \in TokenAddrs |-> 0]
    /\ settled = [o \in OrderAddrs |-> 0]
    /\ paid_to = [o \in OrderAddrs |-> {}]
    /\ last = Outcome("none", NoOrder, "Ok")

Init == InitAccounts /\ ga = IdleFrame

\* the clock advances
Tick ==
    /\ now < MaxTime
    /\ now' = now + 1
    /\ last' = Outcome("Tick", NoOrder, "Ok")
    /\ UNCHANGED <<ledger, history, ga>>

(***************************************************************************)
(* The system program, called from outside: an account of this program at  *)
(* an order address, allocated but never written (its data is all zero).   *)
(***************************************************************************)
Zeroed ==
    Cardinality({o \in DOMAIN orders : orders[o].status = "Uninitialized"})
        + Cardinality({m \in MerchantAddrs : merchants[m].status = "Uninitialized"})

create_account_with_seed(order) ==
    /\ orders[order].status = "Absent"
    /\ Zeroed < MaxZeroed
    /\ orders' = [orders EXCEPT ![order] = ZeroedOrder]
    /\ last' = Outcome("CreateAccount", order, "Ok")
    /\ UNCHANGED <<now, merchants, subs, escrow, tokens, lamports, history, ga>>

\* the same for a merchant address
create_merchant_account(merchant) ==
    /\ merchants[merchant].status = "Absent"
    /\ Zeroed < MaxZeroed
    /\ merchants' = [merchants EXCEPT ![merchant] = ZeroedMerchant]
    /\ last' = Outcome("CreateAccount", NoOrder, "Ok")
    /\ UNCHANGED <<now, orders, subs, escrow, tokens, lamports, history, ga>>

(***************************************************************************)
(* RegisterMerchant.  engine::register returns an error before it reads    *)
(* its accounts, so the registration that creates merchants is             *)
(* processor::process_register_merchant; the record it leaves carries the  *)
(* fee and data fields that engine::register fills in.                     *)
(***************************************************************************)
\* a registration that stores the fee as requested
MerchantFeeAsRequested(maybe_fee) ==
    IF maybe_fee.some THEN maybe_fee.value ELSE MIN_FEE_IN_LAMPORTS

\* the fee a registration stores
MerchantFee(maybe_fee) ==
    IF ~maybe_fee.some THEN MIN_FEE_IN_LAMPORTS
    ELSE IF maybe_fee.value > MIN_FEE_IN_LAMPORTS THEN maybe_fee.value
    ELSE MIN_FEE_IN_LAMPORTS

\* the MerchantAccount a registration writes
NewMerchant(signer, possible_sponsor, maybe_fee, maybe_data) ==
    [status |-> "Initialized",
     owner |-> signer,
     sponsor |-> IF possible_sponsor.some THEN possible_sponsor.value
                 ELSE PROGRAM_OWNER,
     fee |-> MerchantFee(maybe_fee),
     data |-> IF maybe_data.some THEN maybe_data.value ELSE DEFAULT_DATA]

\* a registration whose account creation takes an address already in use
register_merchant_result_reusing(signer, is_signer, merchant, rent_exempt) ==
    IF ~is_signer THEN "MissingRequiredSignature"
    ELSE IF merchant # MerchantAddr(signer) THEN "InvalidSeeds"
    ELSE IF ~rent_exempt THEN "AccountNotRentExempt"
    ELSE "Ok"

register_merchant_result(signer, is_signer, merchant, rent_exempt) ==
    IF ~is_signer THEN "MissingRequiredSignature"
    ELSE IF merchant # MerchantAddr(signer) THEN "InvalidSeeds"
    \* create_account_with_seed fails on an address that is in use
    ELSE IF merchants[merchant].status # "Absent" THEN "AccountAlreadyInUse"
    ELSE IF ~rent_exempt THEN "AccountNotRentExempt"
    ELSE "Ok"

process_register_merchant(signer, is_signer, merchant, possible_sponsor, maybe_fee, maybe_data, rent_exempt) ==
    LET result == register_merchant_result(signer, is_signer, merchant, rent_exempt)
    IN IF result # "Ok" THEN Rejected
       ELSE /\ merchants' = [merchants EXCEPT ![merchant] =
                    NewMerchant(signer, possible_sponsor, maybe_fee, maybe_data)]
            /\ last' = Outcome("RegisterMerchant", NoOrder, "Ok")
            /\ UNCHANGED <<now, orders, subs, escrow, tokens, lamports, history, ga>>

\* engine::register: `return Err(ProgramError::MissingRequiredSignature)`
\* stands before the first check, whatever the accounts and arguments
engine_register_merchant_result(signer, is_signer, merchant, rent_exempt) ==
    "MissingRequiredSignature"

\* engine::register, which returns before it reads its accounts
engine_register_merchant ==
    Rejected

(***************************************************************************)
(* ExpressCheckout.  `lamports` counts the processing fee only; the rent   *)
(* deposits of the accounts a checkout creates are not counted.  No engine *)
(* handler assigns fee_amount, which keeps the 0 of a fresh account.       *)
(***************************************************************************)
\* a checkout that sends the whole fee to the operator, sponsor or not
CheckoutFeesUnsplit(merchant_account) == <<merchant_account.fee, 0>>

\* the lamports a checkout takes from the payer: <<to the operator, to the sponsor>>
CheckoutFees(merchant_account) ==
    IF merchant_account.sponsor = PROGRAM_OWNER
    THEN <<merchant_account.fee, 0>>
    ELSE get_amounts(merchant_account.fee, SPONSOR_FEE)

\* a checkout that takes whatever sponsor account it is given
SponsorUnchecked(sponsor, merchant_account) == TRUE

\* `*sponsor_info.key == Pubkey::new_from_array(merchant_account.sponsor)`
SponsorIsRegistered(sponsor, merchant_account) ==
    sponsor = merchant_account.sponsor

express_checkout_result(signer, is_signer, order, merchant, seller_token, buyer_token, program_owner, sponsor, mint, amount, order_id, rent_exempt) ==
    IF ~is_signer THEN "MissingRequiredSignature"
    ELSE IF ~OwnedByProgram(merchants[merchant]) THEN "IncorrectProgramId"
    ELSE IF ~MerchantIsInitialized(merchants[merchant])
         THEN "UninitializedAccount"
    \* every token account of the model holds MintA
    ELSE IF mint # MintA THEN "MintNotEqual"
    ELSE IF program_owner # PROGRAM_OWNER THEN "WrongProgramOwner"
    ELSE IF ~SponsorIsRegistered(sponsor, merchants[merchant]) THEN "WrongSponsor"
    \* create_account_with_seed(signer, order, signer, order_id, ..)
    ELSE IF order # OrderAddr(signer, order_id) THEN "AddressWithSeedMismatch"
    ELSE IF AccountInUse(orders[order]) THEN "AccountAlreadyInUse"
    ELSE IF TokenAddr(order, mint) # seller_token THEN "InvalidSeeds"
    \* allocate, assign and initialize_account of the escrow token account
    ELSE IF escrow[seller_token].owner # ZeroKey THEN "AccountAlreadyInUse"
    ELSE IF TransferResult(buyer_token, tokens[buyer_token], signer, amount) # "Ok"
         THEN TransferResult(buyer_token, tokens[buyer_token], signer, amount)
    ELSE IF LamportTransferResult(lamports[signer],
                CheckoutFees(merchants[merchant])[1]
                + CheckoutFees(merchants[merchant])[2]) # "Ok"
         THEN "InsufficientLamports"
    ELSE IF ~rent_exempt THEN "AccountNotRentExempt"
    ELSE "Ok"

\* an order written as awaiting its payment
NewOrderPending(timestamp, merchant, mint, seller_token, signer, amount, order_id, secret, maybe_data) ==
    [status |-> "Pending", created |-> timestamp, modified |-> timestamp,
     merchant |-> merchant, mint |-> mint, token |-> seller_token,
     payer |-> signer, expected_amount |-> amount, paid_amount |-> 0,
     fee_amount |-> 0, order_id |-> order_id, secret |-> secret,
     data |-> IF maybe_data.some THEN maybe_data.value ELSE DEFAULT_DATA]

\* the OrderAccount a checkout writes
NewOrder(timestamp, merchant, mint, seller_token, signer, amount, order_id, secret, maybe_data) ==
    [status |-> "Paid", created |-> timestamp, modified |-> timestamp,
     merchant |-> merchant, mint |-> mint, token |-> seller_token,
     payer |-> signer, expected_amount |-> amount, paid_amount |-> amount,
     fee_amount |-> 0, order_id |-> order_id, secret |-> secret,
     data |-> IF maybe_data.some THEN maybe_data.value ELSE DEFAULT_DATA]

process_express_checkout(signer, is_signer, order, merchant, seller_token, buyer_token, program_owner, sponsor, mint, pda, amount, order_id, secret, maybe_data, rent_exempt) ==
    LET result == express_checkout_result(signer, is_signer, order, merchant,
                      seller_token, buyer_token, program_owner, sponsor, mint,
                      amount, order_id, rent_exempt)
        fees == CheckoutFees(merchants[merchant])
    IN IF result # "Ok" THEN Rejected
       ELSE /\ escrow' = [escrow EXCEPT ![seller_token] =
                              [owner |-> pda, amount |-> amount]]
            /\ tokens' = [tokens EXCEPT ![buyer_token] = @ - amount]
            /\ lamports' = [lamports EXCEPT ![signer] = @ - fees[1] - fees[2],
                                            ![program_owner] = @ + fees[1],
                                            ![sponsor] = @ + fees[2]]
            /\ orders' = [orders EXCEPT ![order] =
                   NewOrder(now, merchant, mint, seller_token, signer, amount,
                            order_id, secret, maybe_data)]
            /\ last' = Outcome("ExpressCheckout", order, "Ok")
            /\ UNCHANGED <<now, merchants, subs, history, ga>>

(***************************************************************************)
(* Withdraw                                                                *)
(***************************************************************************)
\* OrderAccount::is_initialized taken to hold of every account
is_initialized_always(order_account) == TRUE

\* OrderAccount::is_initialized
is_initialized(order_account) == order_account.status # "Uninitialized"

\* the destination check of a withdrawal left out
OwnedByMerchantUnchecked(merchant_token, merchant_account) == TRUE

\* `merchant_token_data.owner == merchant_account.owner_pubkey`
OwnedByMerchant(merchant_token, merchant_account) ==
    merchant_token = merchant_account.owner

\* the status check of a withdrawal that only looks for an initialized order
OrderIsInitialized(order_account) == order_account.status # "Uninitialized"

\* the status check of a withdrawal that only refuses a withdrawn order
OrderNotWithdrawn(order_account) == order_account.status # "Withdrawn"

\* `order_account.status == OrderStatus::Paid`
OrderIsPaid(order_account) == order_account.status = "Paid"

\* a withdrawal that forgets to stamp the order
WithdrawnOrderUnstamped(order_account, timestamp) ==
    [order_account EXCEPT !.status = "Withdrawn"]

\* a withdrawal that records the payment as gone from the order
WithdrawnOrderEmptied(order_account, timestamp) ==
    [order_account EXCEPT !.status = "Withdrawn", !.modified = timestamp,
                          !.paid_amount = 0]

\* the order a withdrawal writes back
WithdrawnOrder(order_account, timestamp) ==
    [order_account EXCEPT !.status = "Withdrawn", !.modified = timestamp]

\* the fee tokens a withdrawal sends: <<to the operator, to the sponsor>>
WithdrawFees(merchant_account, order_account) ==
    IF merchant_account.sponsor = PROGRAM_OWNER
    THEN <<order_account.fee_amount, 0>>
    ELSE get_amounts(order_account.fee_amount, SPONSOR_FEE)

\* the three transfers out of the escrow account, signed by the custodial
\* signer: the first one that fails, if any
WithdrawTransfers(escrow_account, merchant_account, order_account) ==
    LET fees == WithdrawFees(merchant_account, order_account)
        first == TransferResult(escrow_account.owner, escrow_account.amount,
                                PDA, order_account.paid_amount)
        second == TransferResult(escrow_account.owner,
                                 escrow_account.amount - order_account.paid_amount,
                                 PDA, fees[1])
        third == TransferResult(escrow_account.owner,
                                escrow_account.amount - order_account.paid_amount
                                - fees[1],
                                PDA, fees[2])
    IN IF first # "Ok" THEN first
       ELSE IF second # "Ok" THEN second
       ELSE third

\* a withdraw that takes an order for the order of any merchant
OrderOfMerchantUnchecked(merchant, order_account) == TRUE

\* `merchant_info.key.to_bytes() == order_account.merchant`
OrderOfMerchant(merchant, order_account) == merchant = order_account.merchant

withdraw_payment_result(is_signer, order, merchant, order_payment_token, merchant_token, program_owner_token, sponsor_token, pda) ==
    IF ~is_signer THEN "MissingRequiredSignature"
    ELSE IF ~OwnedByProgram(merchants[merchant]) THEN "IncorrectProgramId"
    ELSE IF ~OwnedByProgram(orders[order]) THEN "IncorrectProgramId"
    ELSE IF pda # PDA THEN "InvalidSeeds"
    ELSE IF program_owner_token # PROGRAM_OWNER THEN "WrongProgramOwner"
    ELSE IF ~MerchantIsInitialized(merchants[merchant])
         THEN "UninitializedAccount"
    ELSE IF ~OwnedByMerchant(merchant_token, merchants[merchant])
         THEN "WrongMerchant"
    ELSE IF sponsor_token # merchants[merchant].sponsor THEN "WrongSponsor"
    ELSE IF ~is_initialized(orders[order]) THEN "UninitializedAccount"
    ELSE IF ~OrderOfMerchant(merchant, orders[order]) THEN "InvalidAccountData"
    ELSE IF order_payment_token # orders[order].token THEN "InvalidAccountData"
    ELSE IF ~OrderIsPaid(orders[order]) THEN "AlreadyWithdrawn"
    ELSE IF TokenAddr(order, orders[order].mint) # order_payment_token
         THEN "InvalidSeeds"
    ELSE WithdrawTransfers(escrow[order_payment_token], merchants[merchant],
                           orders[order])

process_withdraw_payment(signer, is_signer, order, merchant, order_payment_token, merchant_token, program_owner_token, sponsor_token, pda) ==
    LET result == withdraw_payment_result(is_signer, order, merchant,
                      order_payment_token, merchant_token, program_owner_token,
                      sponsor_token, pda)
        paid == orders[order].paid_amount
        fees == WithdrawFees(merchants[merchant], orders[order])
    IN IF result # "Ok" THEN Rejected
       ELSE /\ escrow' = [escrow EXCEPT ![order_payment_token].amount =
                              @ - paid - fees[1] - fees[2]]
            /\ tokens' = [tokens EXCEPT ![merchant_token] = @ + paid,
                                        ![program_owner_token] = @ + fees[1],
                                        ![sponsor_token] = @ + fees[2]]
            /\ orders' = [orders EXCEPT ![order] = WithdrawnOrder(@, now)]
            /\ released' = [released EXCEPT ![order_payment_token] =
                                @ + paid + fees[1] + fees[2]]
            /\ settled' = [settled EXCEPT ![order] = @ + 1]
            /\ paid_to' = [paid_to EXCEPT ![order] = @
                   \cup (IF paid > 0 THEN {merchant_token} ELSE {})
                   \cup (IF fees[1] > 0 THEN {program_owner_token} ELSE {})
                   \cup (IF fees[2] > 0 THEN {sponsor_token} ELSE {})]
            /\ last' = Outcome("Withdraw", order, "Ok")
            /\ UNCHANGED <<now, merchants, subs, lamports, ga>>

(***************************************************************************)
(* Subscribe                                                               *)
(***************************************************************************)
\* the package a subscription name selects in a merchant's catalogue: its
\* index in the list, 0 when there is none
PackageIndex(merchant_account, name) ==
    FindPackage(ParsePackages(merchant_account.data).packages, SplitName(name)[2])

PackageOf(merchant_account, name) ==
    ParsePackages(merchant_account.data).packages[PackageIndex(merchant_account, name)]

\* package.price * (package.duration as u64); the catalogue's products fit u64
ExpectedAmount(package) == (package.price * package.duration) % U64

\* a status check that also lets a withdrawn order through
StatusIsPaidOrWithdrawn(order_account) ==
    order_account.status \in {"Paid", "Withdrawn"}

\* `order_account.status == (OrderStatus::Paid as u8)`
StatusIsPaid(order_account) == order_account.status = "Paid"

\* an instruction that takes any signer for the order's payer
IsOrderPayerUnchecked(signer, order_account) == TRUE

\* `signer_info.key.to_bytes() == order_account.payer`
IsOrderPayer(signer, order_account) == signer = order_account.payer

subscribe_result(signer, is_signer, subscription, merchant, order, name, rent_exempt) ==
    IF ~is_signer THEN "MissingRequiredSignature"
    ELSE IF ~OwnedByProgram(merchants[merchant]) THEN "IncorrectProgramId"
    ELSE IF ~OwnedByProgram(orders[order]) THEN "IncorrectProgramId"
    ELSE IF ~MerchantIsInitialized(merchants[merchant])
         THEN "UninitializedAccount"
    ELSE IF ~IsOrderPayer(signer, orders[order]) THEN "WrongPayer"
    ELSE IF ~StatusIsPaid(orders[order]) THEN "NotPaid"
    ELSE IF merchant # orders[order].merchant THEN "InvalidAccountData"
    \* name_vec[1] of a name without a separator is out of bounds
    ELSE IF Len(SplitName(name)) < 2 THEN "Panic"
    ELSE IF orders[order].order_id # SplitName(name)[2] THEN "InvalidOrder"
    ELSE IF ~ParsePackages(merchants[merchant].data).ok
         THEN "InvalidSubscriptionData"
    ELSE IF PackageIndex(merchants[merchant], name) = 0
         THEN "InvalidSubscriptionPackage"
    ELSE IF ExpectedAmount(PackageOf(merchants[merchant], name))
                > orders[order].paid_amount
         THEN "NotFullyPaid"
    \* create_account_with_seed(signer, subscription, signer, name, ..)
    ELSE IF subscription # SubscriptionAddr(signer, name)
         THEN "AddressWithSeedMismatch"
    ELSE IF AccountInUse(subs[subscription]) THEN "AccountAlreadyInUse"
    ELSE IF ~rent_exempt THEN "AccountNotRentExempt"
    ELSE "Ok"

\* the SubscriptionAccount a subscribe writes
NewSubscription(timestamp, signer, merchant, name, package, maybe_data) ==
    [status |-> "Initialized", owner |-> signer, merchant |-> merchant,
     name |-> name, joined |-> timestamp, period_start |-> timestamp,
     period_end |-> timestamp + package.duration,
     data |-> IF maybe_data.some THEN maybe_data.value ELSE DEFAULT_DATA]

process_subscribe(signer, is_signer, subscription, merchant, order, name, maybe_data, rent_exempt) ==
    LET result == subscribe_result(signer, is_signer, subscription, merchant,
                                   order, name, rent_exempt)
    IN IF result # "Ok" THEN Rejected
       ELSE /\ subs' = [subs EXCEPT ![subscription] =
                   NewSubscription(now, signer, merchant, name,
                       PackageOf(merchants[merchant], name), maybe_data)]
            /\ last' = Outcome("Subscribe", order, "Ok")
            /\ UNCHANGED <<now, merchants, orders, escrow, tokens, lamports,
                           history, ga>>

(***************************************************************************)
(* Checks shared by the instructions that act on an existing subscription  *)
(***************************************************************************)
subscribe_checks(signer, is_signer, merchant, order, subscription, subscription_name) ==
    IF ~is_signer THEN "MissingRequiredSignature"
    ELSE IF ~OwnedByProgram(merchants[merchant]) THEN "IncorrectProgramId"
    ELSE IF ~OwnedByProgram(orders[order]) THEN "IncorrectProgramId"
    ELSE IF ~MerchantIsInitialized(merchants[merchant])
         THEN "UninitializedAccount"
    ELSE IF ~ParseOrderSubscription(orders[order].data).ok
         THEN "InvalidSubscriptionData"
    ELSE IF ParseOrderSubscription(orders[order].data).subscription # subscription
         THEN "WrongOrderAccount"
    ELSE IF ~IsOrderPayer(signer, orders[order]) THEN "WrongPayer"
    ELSE IF ~StatusIsPaid(orders[order]) THEN "NotPaid"
    ELSE IF merchant # orders[order].merchant THEN "InvalidAccountData"
    ELSE IF Len(SplitName(subscription_name)) < 2 THEN "Panic"
    ELSE IF ~ParsePackages(merchants[merchant].data).ok
         THEN "InvalidSubscriptionData"
    ELSE IF PackageIndex(merchants[merchant], subscription_name) = 0
         THEN "InvalidSubscriptionPackage"
    ELSE IF PackageOf(merchants[merchant], subscription_name).mint
                # orders[order].mint
         THEN "WrongMint"
    ELSE "Ok"

(***************************************************************************)
(* CancelSubscription                                                      *)
(***************************************************************************)
\* package.trial, or 0
TrialDuration(package) == IF package.has_trial THEN package.trial ELSE 0

\* `timestamp > subscription_account.joined + trial_duration`
TrialEnded(timestamp, subscription_account, package) ==
    timestamp > subscription_account.joined + TrialDuration(package)

\* a cancellation that also takes the refund off the order's record
CancelledOrderRefunded(order_account, timestamp) ==
    [order_account EXCEPT !.status = "Cancelled", !.modified = timestamp,
                          !.paid_amount = 0]

\* the order a cancellation writes back
CancelledOrder(order_account, timestamp) ==
    [order_account EXCEPT !.status = "Cancelled", !.modified = timestamp]

cancel_subscription_result(signer, is_signer, subscription, merchant, order, order_token, pda) ==
    IF ~is_signer THEN "MissingRequiredSignature"
    ELSE IF ~OwnedByProgram(subs[subscription]) THEN "IncorrectProgramId"
    \* a token account that was never created is not the token program's
    ELSE IF escrow[order_token].owner = ZeroKey THEN "IncorrectProgramId"
    ELSE IF pda # PDA THEN "InvalidSeeds"
    ELSE IF subs[subscription].status # "Initialized" THEN "UninitializedAccount"
    ELSE IF subscribe_checks(signer, is_signer, merchant, order, subscription,
                             subs[subscription].name) # "Ok"
         THEN subscribe_checks(signer, is_signer, merchant, order, subscription,
                               subs[subscription].name)
    ELSE IF order_token # orders[order].token THEN "InvalidAccountData"
    ELSE IF signer # orders[order].payer THEN "InvalidAccountData"
    ELSE IF TrialEnded(now, subs[subscription],
                       PackageOf(merchants[merchant], subs[subscription].name))
         THEN "Ok"
    ELSE TransferResult(escrow[order_token].owner, escrow[order_token].amount,
                        PDA, orders[order].paid_amount)

process_cancel_subscription(signer, is_signer, subscription, merchant, order, order_token, refund_token, pda) ==
    LET result == cancel_subscription_result(signer, is_signer, subscription,
                      merchant, order, order_token, pda)
        refund == IF TrialEnded(now, subs[subscription],
                         PackageOf(merchants[merchant], subs[subscription].name))
                  THEN 0 ELSE orders[order].paid_amount
    IN IF result # "Ok" THEN Rejected
       ELSE /\ escrow' = [escrow EXCEPT ![order_token].amount = @ - refund]
            /\ tokens' = [tokens EXCEPT ![refund_token] = @ + refund]
            /\ released' = [released EXCEPT ![order_token] = @ + refund]
            /\ orders' = [orders EXCEPT ![order] = CancelledOrder(@, now)]
            /\ settled' = [settled EXCEPT ![order] = @ + 1]
            /\ last' = Outcome("Cancel", order, "Ok")
            /\ UNCHANGED <<now, merchants, subs, lamports, paid_to, ga>>

(***************************************************************************)
(* RenewSubscription                                                       *)
(***************************************************************************)
\* `quantity as u64`
AsU64(quantity) == quantity % U64

\* (quantity as u64) * package.price leaves u64
RenewOverflows(quantity, package) == AsU64(quantity) * package.price >= U64

renew_subscription_result(signer, is_signer, subscription, merchant, order, quantity, overflow_checks) ==
    IF ~is_signer THEN "MissingRequiredSignature"
    ELSE IF ~OwnedByProgram(merchants[merchant]) THEN "IncorrectProgramId"
    ELSE IF ~OwnedByProgram(orders[order]) THEN "IncorrectProgramId"
    ELSE IF ~OwnedByProgram(subs[subscription]) THEN "IncorrectProgramId"
    ELSE IF ~MerchantIsInitialized(merchants[merchant])
         THEN "UninitializedAccount"
    ELSE IF ~ParseOrderSubscription(orders[order].data).ok
         THEN "InvalidSubscriptionData"
    ELSE IF ParseOrderSubscription(orders[order].data).subscription # subscription
         THEN "WrongOrderAccount"
    ELSE IF ~IsOrderPayer(signer, orders[order]) THEN "WrongPayer"
    ELSE IF ~StatusIsPaid(orders[order]) THEN "NotPaid"
    ELSE IF merchant # orders[order].merchant THEN "InvalidAccountData"
    ELSE IF subs[subscription].status # "Initialized" THEN "UninitializedAccount"
    ELSE IF Len(SplitName(subs[subscription].name)) < 2 THEN "Panic"
    ELSE IF ~ParsePackages(merchants[merchant].data).ok
         THEN "InvalidSubscriptionData"
    ELSE IF PackageIndex(merchants[merchant], subs[subscription].name) = 0
         THEN "InvalidSubscriptionPackage"
    \* the product wraps, or panics in a build with overflow checks
    ELSE IF overflow_checks
            /\ RenewOverflows(quantity,
                   PackageOf(merchants[merchant], subs[subscription].name))
         THEN "Panic"
    ELSE IF (AsU64(quantity)
             * PackageOf(merchants[merchant], subs[subscription].name).price) % U64
                > orders[order].paid_amount
         THEN "NotFullyPaid"
    ELSE "Ok"

\* an i64 sum or product, wrapped into the width of the type
AsI64(v) == ((v + U64 \div 2) % U64) - U64 \div 2

\* a renewal that counts the new periods from the clock, not from the end
\* of the current period
RenewedFromNow(timestamp, subscription_account, package, quantity) ==
    [subscription_account EXCEPT
         !.period_end = AsI64(timestamp + AsI64(package.duration * quantity))]

\* a renewal that adds to the current period even after it has ended
RenewedWithoutRestart(timestamp, subscription_account, package, quantity) ==
    [subscription_account EXCEPT
         !.period_end = AsI64(@ + AsI64(package.duration * quantity))]

\* the subscription after a renewal of `quantity` periods
Renewed(timestamp, subscription_account, package, quantity) ==
    IF timestamp > subscription_account.period_end
    THEN [subscription_account EXCEPT
              !.period_start = timestamp,
              !.period_end = AsI64(timestamp + AsI64(package.duration * quantity))]
    ELSE [subscription_account EXCEPT
              !.period_end = AsI64(@ + AsI64(package.duration * quantity))]

process_renew_subscription(signer, is_signer, subscription, merchant, order, quantity, overflow_checks) ==
    LET result == renew_subscription_result(signer, is_signer, subscription,
                      merchant, order, quantity, overflow_checks)
    IN IF result # "Ok" THEN Rejected
       ELSE /\ subs' = [subs EXCEPT ![subscription] =
                   Renewed(now, @, PackageOf(merchants[merchant], @.name),
                           quantity)]
            /\ subs'[subscription].period_end <= MaxPeriodEnd
            /\ last' = Outcome("Renew", order, "Ok")
            /\ UNCHANGED <<now, merchants, orders, escrow, tokens, lamports,
                           history, ga>>

(***************************************************************************)
(* Instructions as they arrive: a well-formed request, or one that departs *)
(* from it in a single account or argument                                 *)
(***************************************************************************)
OtherOrderId(order_id) == IF order_id = "t" THEN "z" ELSE "t"
OtherMerchant(merchant) ==
    IF merchant = MerchantAddr("alice") THEN MerchantAddr("carol")
    ELSE MerchantAddr("alice")
\* the subscription an order of that id is meant to pay for
SubscriptionFor(signer, order_id) ==
    SubscriptionAddr(signer, IF order_id = "t" THEN "a:t" ELSE "a:z")

RegisterRequests ==
    { <<"alice", NoSponsor, NoFee, Some(TrialCatalog)>>,
      <<"alice", NoSponsor, SomeFee(1), None>>,
      <<"alice", NoSponsor, NoFee, Some(OtherCatalog)>>,
      <<"carol", SomeSponsor("alice"), SomeFee(MIN_FEE_IN_LAMPORTS + 1000),
        Some(FlatCatalog)>> }
RegisterFaults == {"none", "unsigned", "wrong address", "not rent exempt"}

RegisterMerchant ==
    \E r \in RegisterRequests, fault \in RegisterFaults :
        process_register_merchant(r[1], fault # "unsigned",
            IF fault = "wrong address"
            THEN OtherMerchant(MerchantAddr(r[1])) ELSE MerchantAddr(r[1]),
            r[2], r[3], r[4], fault # "not rent exempt")

EngineRegisterMerchant == engine_register_merchant

CheckoutFaults ==
    {"none", "unsigned", "wrong order", "wrong escrow", "wrong buyer",
     "wrong operator", "wrong sponsor", "wrong mint", "wrong pda", "no data",
     "not rent exempt"}

\* <<amount, fault>>: every amount in a well-formed request, and each fault
\* with the largest amount the payer can afford
CheckoutRequests ==
    {<<a, "none">> : a \in 0..MaxAmount}
        \cup {<<InitialTokens, f>> : f \in CheckoutFaults}

ExpressCheckout ==
    \E signer \in Payers, order_id \in OrderIds, merchant \in MerchantAddrs,
       r \in CheckoutRequests :
        LET amount == r[1]
            fault == r[2]
            order == IF fault = "wrong order"
                     THEN OrderAddr(signer, OtherOrderId(order_id))
                     ELSE OrderAddr(signer, order_id)
            mint == IF fault = "wrong mint" THEN MintB ELSE MintA
        IN process_express_checkout(signer, fault # "unsigned", order, merchant,
               IF fault = "wrong escrow" THEN TokenAddr(order, MintB)
               ELSE TokenAddr(order, mint),
               IF fault = "wrong buyer" THEN "alice" ELSE signer,
               IF fault = "wrong operator" THEN "carol" ELSE PROGRAM_OWNER,
               IF fault = "wrong sponsor" THEN "bob"
               ELSE merchants[merchant].sponsor,
               mint,
               IF fault = "wrong pda" THEN "carol" ELSE PDA,
               amount, order_id, "secret",
               IF fault = "no data" THEN None
               ELSE Some(OrderSubscriptionDoc(SubscriptionFor(signer, order_id))),
               fault # "not rent exempt")

WithdrawFaults ==
    {"none", "unsigned", "wrong escrow", "wrong merchant token",
     "wrong operator token", "wrong sponsor token", "wrong pda"}

Withdraw ==
    \E signer \in Signers, order \in OrderAddrs, merchant \in MerchantAddrs,
       fault \in WithdrawFaults :
        /\ fault # "none" => signer = "carol"
        /\ process_withdraw_payment(signer, fault # "unsigned", order, merchant,
            IF fault = "wrong escrow" THEN TokenAddr(order, MintB)
            ELSE TokenAddr(order, MintA),
            IF fault = "wrong merchant token" THEN "bob"
            ELSE merchants[merchant].owner,
            IF fault = "wrong operator token" THEN "bob" ELSE PROGRAM_OWNER,
            IF fault = "wrong sponsor token" THEN "bob"
            ELSE merchants[merchant].sponsor,
            IF fault = "wrong pda" THEN "carol" ELSE PDA)

SubscribeFaults ==
    {"none", "unsigned", "wrong signer", "wrong address", "not rent exempt"}

Subscribe ==
    \E payer \in Payers, name \in SubscriptionNames, order_id \in OrderIds,
       merchant \in MerchantAddrs, fault \in SubscribeFaults :
        LET signer == IF fault = "wrong signer" THEN "carol" ELSE payer
        IN process_subscribe(signer, fault # "unsigned",
               IF fault = "wrong address" THEN SubscriptionAddr(payer, "b:t")
               ELSE SubscriptionAddr(payer, name),
               merchant, OrderAddr(payer, order_id), name, None,
               fault # "not rent exempt")

RenewFaults == {"none", "unsigned", "wrong signer"}
\* <<quantity, whether the build checks arithmetic overflow>>; the build only
\* matters to a quantity whose product with a price can leave u64
RenewRequests == {<<0 - 1, TRUE>>, <<0 - 1, FALSE>>, <<0, FALSE>>, <<1, FALSE>>,
                  <<2, FALSE>>, <<U64 \div 4, TRUE>>, <<U64 \div 4, FALSE>>}

Renew ==
    \E payer \in Payers, subscription \in SubscriptionAddrs,
       order \in OrderAddrs, merchant \in MerchantAddrs,
       r \in RenewRequests, fault \in RenewFaults :
        /\ fault # "none" => r[1] = 1
        /\ process_renew_subscription(
               IF fault = "wrong signer" THEN "carol" ELSE payer,
               fault # "unsigned", subscription, merchant, order, r[1], r[2])

CancelFaults ==
    {"none", "unsigned", "wrong signer", "wrong escrow", "wrong pda",
     "refund elsewhere"}

Cancel ==
    \E payer \in Payers, subscription \in SubscriptionAddrs,
       order \in OrderAddrs, merchant \in MerchantAddrs,
       fault \in CancelFaults :
        process_cancel_subscription(
            IF fault = "wrong signer" THEN "carol" ELSE payer,
            fault # "unsigned", subscription, merchant, order,
            IF fault = "wrong escrow" THEN TokenAddr(order, MintB)
            ELSE TokenAddr(order, MintA),
            IF fault = "refund elsewhere" THEN "carol" ELSE payer,
            IF fault = "wrong pda" THEN "carol" ELSE PDA)

CreateAccount ==
    \/ \E order \in OrderAddrs : create_account_with_seed(order)
    \/ \E merchant \in MerchantAddrs : create_merchant_account(merchant)

Next ==
    \/ Tick
    \/ CreateAccount
    \/ RegisterMerchant
    \/ EngineRegisterMerchant
    \/ ExpressCheckout
    \/ Withdraw
    \/ Subscribe
    \/ Cancel
    \/ Renew

Spec == Init /\ [][Next]_vars

(***************************************************************************)
(* Properties of the order life cycle (under Spec)                         *)
(***************************************************************************)
\* the outcome of a Withdraw that names the order, a merchant and that
\* merchant's own accounts, signed, with the custodial signer
WellFormedWithdraw(order, merchant) ==
    withdraw_payment_result(TRUE, order, merchant, TokenAddr(order, MintA),
        merchants[merchant].owner, PROGRAM_OWNER, merchants[merchant].sponsor,
        PDA)

\* the package of an existing subscription
SubscribedPackage(subscription) ==
    PackageOf(merchants[subs[subscription].merchant], subs[subscription].name)

TerminalStatuses == {"Withdrawn", "Cancelled"}

\* C1: once an order's status is Withdrawn or Cancelled, no instruction of
\* any sequence changes it again.
TerminalStatusIsFinal ==
    [][\A o \in OrderAddrs :
           orders[o].status \in TerminalStatuses
               => orders'[o].status = orders[o].status]_vars

\* a cancelled order on which, at a later time, a well-formed Withdraw is
\* refused for its status
CancelledOrderRefusesWithdraw ==
    \E o \in OrderAddrs :
        /\ orders[o].status = "Cancelled"
        /\ orders[o].modified < now
        /\ escrow[orders[o].token].amount > 0
        /\ WellFormedWithdraw(o, orders[o].merchant) = "AlreadyWithdrawn"

\* C2: for every order at most one Withdraw or Cancel ever succeeds, the
\* tokens moved out of the order's escrow account never exceed its
\* paid_amount, and a second Withdraw on a withdrawn order fails with
\* AlreadyWithdrawn.
AtMostOneSettlement ==
    \A o \in OrderAddrs :
        /\ settled[o] <= 1
        /\ settled[o] = 1 <=> orders[o].status \in TerminalStatuses
        /\ released[TokenAddr(o, MintA)] <= orders[o].paid_amount
        /\ released[TokenAddr(o, MintB)] = 0
        /\ orders[o].status = "Withdrawn"
               => WellFormedWithdraw(o, orders[o].merchant) = "AlreadyWithdrawn"

\* a withdrawn order whose whole payment left the escrow once and on which
\* a second Withdraw is refused
SecondWithdrawRefused ==
    \E o \in OrderAddrs :
        /\ orders[o].status = "Withdrawn"
        /\ settled[o] = 1
        /\ orders[o].paid_amount > 0
        /\ released[orders[o].token] = orders[o].paid_amount
        /\ WellFormedWithdraw(o, orders[o].merchant) = "AlreadyWithdrawn"

\* C3: a Cancel whose checks pass succeeds and refunds exactly paid_amount
\* if and only if now <= joined + trial_duration; after that it fails, no
\* tokens move and the order stays Paid.  So a cancelled order was cancelled
\* inside the trial window of its subscription and was refunded in full.
CancelOnlyInsideTrial ==
    \A o \in OrderAddrs :
        orders[o].status = "Cancelled"
            => LET s == ParseOrderSubscription(orders[o].data).subscription
               IN /\ orders[o].modified
                         <= subs[s].joined + TrialDuration(SubscribedPackage(s))
                  /\ released[orders[o].token] = orders[o].paid_amount

\* C4: Withdraw, whoever signs it, succeeds only when the destination token
\* account's owner is the owner stored in the merchant record, and fails
\* with WrongMerchant otherwise; the tokens a Withdraw takes out of escrow
\* are credited only to accounts of the merchant's owner.
WithdrawPaysMerchantOwner ==
    /\ \A o \in OrderAddrs :
           paid_to[o] # {} => paid_to[o] = {merchants[orders[o].merchant].owner}
    /\ \A is_signer \in BOOLEAN, o \in OrderAddrs, m \in MerchantAddrs,
          order_payment_token \in TokenAddrs, merchant_token \in TokenOwners,
          program_owner_token \in {PROGRAM_OWNER, "bob"},
          sponsor_token \in TokenOwners, pda \in {PDA, "carol"} :
           LET result == withdraw_payment_result(is_signer, o, m,
                   order_payment_token, merchant_token, program_owner_token,
                   sponsor_token, pda)
           IN /\ result = "Ok" => merchant_token = merchants[m].owner
              /\ ( /\ is_signer /\ pda = PDA
                   /\ program_owner_token = PROGRAM_OWNER
                   /\ orders[o].status # "Absent"
                   /\ merchants[m].status = "Initialized"
                   /\ merchant_token # merchants[m].owner )
                     => result = "WrongMerchant"

\* a paid order that a Withdraw to the payer's token account is refused
\* for, and a Withdraw to the merchant owner's account is not
WrongDestinationRefused ==
    \E o \in OrderAddrs :
        /\ orders[o].status = "Paid"
        /\ orders[o].paid_amount > 0
        /\ WellFormedWithdraw(o, orders[o].merchant) = "Ok"
        /\ withdraw_payment_result(TRUE, o, orders[o].merchant, orders[o].token,
               orders[o].payer, PROGRAM_OWNER,
               merchants[orders[o].merchant].sponsor, PDA) = "WrongMerchant"

\* C5 as stated: Withdraw on an order whose status is Uninitialized,
\* Pending, Withdrawn or Cancelled always fails with AlreadyWithdrawn.
UnpaidWithdrawIsAlreadyWithdrawn ==
    \A o \in OrderAddrs, m \in MerchantAddrs :
        ( /\ orders[o].status \in {"Uninitialized", "Pending"} \cup TerminalStatuses
          /\ merchants[m].status = "Initialized"
          /\ orders[o].status # "Uninitialized" => m = orders[o].merchant )
            => WellFormedWithdraw(o, m) = "AlreadyWithdrawn"

\* C5: Withdraw on an order whose status is not Paid always fails and leaves
\* the order and every balance as they were: no successful Withdraw starts
\* from such an order.  With the other accounts well-formed the error is
\* AlreadyWithdrawn when the status is Pending, Withdrawn or Cancelled, and
\* UninitializedAccount when it is Uninitialized.
UnpaidWithdrawFails ==
    /\ [][\A o \in OrderAddrs :
              (last'.op = "Withdraw" /\ last'.order = o)
                  => orders[o].status = "Paid"]_vars
    /\ [](\A o \in OrderAddrs, m \in MerchantAddrs :
              merchants[m].status = "Initialized"
                  => /\ ( /\ orders[o].status \in {"Pending"} \cup TerminalStatuses
                          /\ m = orders[o].merchant )
                            => WellFormedWithdraw(o, m) = "AlreadyWithdrawn"
                     /\ orders[o].status = "Uninitialized"
                            => WellFormedWithdraw(o, m) = "UninitializedAccount"
                     /\ orders[o].status \notin {"Absent", "Paid"}
                            => WellFormedWithdraw(o, m) # "Ok")

\* a zeroed order account and a registered merchant: a well-formed Withdraw
\* is refused because the order is not initialized
ZeroedOrderRefusesWithdraw ==
    \E o \in OrderAddrs, m \in MerchantAddrs :
        /\ orders[o].status = "Uninitialized"
        /\ merchants[m].status = "Initialized"
        /\ WellFormedWithdraw(o, m) = "UninitializedAccount"

\* C6: a successful Withdraw of a Paid order moves exactly paid_amount from
\* the order's escrow account, which it empties, to the merchant owner's
\* token account, and sets status = Withdrawn and modified = now, leaving
\* the rest of the order and every other token balance as they were.
WithdrawMovesPaidAmount ==
    [][last'.op = "Withdraw"
         => LET o == last'.order
                owner == merchants[orders[o].merchant].owner
            IN /\ orders[o].status = "Paid"
               /\ escrow[orders[o].token].amount = orders[o].paid_amount
               /\ escrow'[orders[o].token].amount = 0
               /\ tokens'[owner] = tokens[owner] + orders[o].paid_amount
               /\ \A k \in TokenOwners \ {owner} : tokens'[k] = tokens[k]
               /\ orders'[o] = [orders[o] EXCEPT !.status = "Withdrawn",
                                                 !.modified = now]]_vars

\* the last instruction withdrew, some time after the checkout, an order
\* of two tokens, which are now the merchant owner's
PaymentWithdrawn ==
    \E o \in OrderAddrs :
        /\ last = Outcome("Withdraw", o, "Ok")
        /\ orders[o].status = "Withdrawn"
        /\ orders[o].paid_amount = 2
        /\ orders[o].created < now /\ orders[o].modified = now
        /\ escrow[orders[o].token].amount = 0
        /\ tokens[merchants[orders[o].merchant].owner] = 2

\* C7: while now < joined + trial_duration of the subscription an order
\* pays for, Withdraw of the order fails.  So an order with a subscription
\* to a trial package was withdrawn no earlier than the end of the trial.
WithdrawWaitsForTrial ==
    \A o \in OrderAddrs :
        LET s == ParseOrderSubscription(orders[o].data).subscription
        IN ( /\ orders[o].status = "Withdrawn"
             /\ ParseOrderSubscription(orders[o].data).ok
             /\ subs[s].status = "Initialized"
             /\ SubscribedPackage(s).has_trial )
               => orders[o].modified
                      >= subs[s].joined + TrialDuration(SubscribedPackage(s))

\* C10: a Subscribe whose order has paid_amount < package.price fails with
\* NotFullyPaid and creates no subscription, whatever the package's duration.
SubscribeNeedsPrice ==
    \A o \in OrderAddrs, name \in SubscriptionNames :
        LET m == orders[o].merchant
        IN ( /\ orders[o].status = "Paid"
             /\ merchants[m].status = "Initialized"
             /\ Len(SplitName(name)) = 2
             /\ orders[o].order_id = SplitName(name)[2]
             /\ PackageIndex(merchants[m], name) > 0
             /\ orders[o].paid_amount < PackageOf(merchants[m], name).price )
               => subscribe_result(orders[o].payer, TRUE,
                      SubscriptionAddr(orders[o].payer, name), m, o, name, TRUE)
                      = "NotFullyPaid"

\* C11: Subscribe's payment condition is paid_amount >= package.price: with
\* every other check passing, Subscribe succeeds whenever paid_amount >=
\* package.price, whatever the package's duration.
SubscribeAcceptsPrice ==
    \A o \in OrderAddrs, name \in SubscriptionNames :
        LET m == orders[o].merchant
        IN ( /\ orders[o].status = "Paid"
             /\ merchants[m].status = "Initialized"
             /\ Len(SplitName(name)) = 2
             /\ orders[o].order_id = SplitName(name)[2]
             /\ PackageIndex(merchants[m], name) > 0
             /\ subs[SubscriptionAddr(orders[o].payer, name)].status = "Absent"
             /\ orders[o].paid_amount >= PackageOf(merchants[m], name).price )
               => subscribe_result(orders[o].payer, TRUE,
                      SubscriptionAddr(orders[o].payer, name), m, o, name, TRUE)
                      = "Ok"

\* C12: a successful Subscribe at time now creates the subscription with
\* status = Initialized, owner = signer, merchant = the supplied merchant,
\* joined = period_start = now and period_end = now + trial_duration +
\* package.duration.
SubscribePeriodCoversTrial ==
    [][\A s \in SubscriptionAddrs :
           (subs[s].status = "Absent" /\ subs'[s].status # "Absent")
               => LET o == last'.order
                      package == PackageOf(merchants[orders[o].merchant],
                                           subs'[s].name)
                  IN /\ last'.op = "Subscribe"
                     /\ subs'[s].status = "Initialized"
                     /\ subs'[s].owner = orders[o].payer
                     /\ subs'[s].merchant = orders[o].merchant
                     /\ subs'[s].joined = now
                     /\ subs'[s].period_start = now
                     /\ subs'[s].period_end
                            = now + TrialDuration(package) + package.duration]_vars

\* the quantities of the Renew requests
RenewQuantities == {r[1] : r \in RenewRequests}

\* the subscription an order's data names
LinkedSubscription(order) == ParseOrderSubscription(orders[order].data).subscription

\* C13: a successful Renew with quantity q at time now sets period_start =
\* now and period_end = now + duration * q when now > period_end, and
\* leaves period_start and sets period_end = period_end + duration * q when
\* now <= period_end; no other field of the subscription changes, and no
\* other subscription does.
RenewSetsPeriod ==
    [][last'.op = "Renew"
         => LET o == last'.order
                s == LinkedSubscription(o)
                duration == PackageOf(merchants[orders[o].merchant],
                                      subs[s].name).duration
            IN \E q \in RenewQuantities, overflow_checks \in BOOLEAN :
                   /\ renew_subscription_result(orders[o].payer, TRUE, s,
                          orders[o].merchant, o, q, overflow_checks) = "Ok"
                   /\ IF now > subs[s].period_end
                      THEN subs' = [subs EXCEPT
                                        ![s].period_start = now,
                                        ![s].period_end = now + duration * q]
                      ELSE subs' = [subs EXCEPT
                                        ![s].period_end = @ + duration * q]]_vars

\* the last instruction renewed, inside its first period, a subscription
\* to the package of duration 2 for one more period
RenewalExtendsPeriod ==
    \E o \in OrderAddrs :
        /\ last = Outcome("Renew", o, "Ok")
        /\ now > 0
        /\ subs[LinkedSubscription(o)].status = "Initialized"
        /\ subs[LinkedSubscription(o)].joined = 0
        /\ subs[LinkedSubscription(o)].period_start = 0
        /\ subs[LinkedSubscription(o)].period_end = 4

\* C14: Renew with quantity q succeeds only if paid_amount >= q *
\* package.price as a product of integers, and otherwise fails with
\* NotFullyPaid: the cast of q and the 64-bit product let no request pass
\* whose true required amount exceeds paid_amount.
RenewNeedsTrueProduct ==
    \A o \in OrderAddrs, q \in RenewQuantities, overflow_checks \in BOOLEAN :
        LET s == LinkedSubscription(o)
            m == orders[o].merchant
            result == renew_subscription_result(orders[o].payer, TRUE, s, m, o,
                                                q, overflow_checks)
        IN ( /\ orders[o].status = "Paid"
             /\ merchants[m].status = "Initialized"
             /\ ParseOrderSubscription(orders[o].data).ok
             /\ subs[s].status = "Initialized"
             /\ PackageIndex(merchants[m], subs[s].name) > 0 )
               => LET price == PackageOf(merchants[m], subs[s].name).price
                  IN /\ result = "Ok" => orders[o].paid_amount >= q * price
                     /\ q * price > orders[o].paid_amount
                            => result = "NotFullyPaid"

\* C15: RegisterMerchant sent by a signing caller for a merchant record that
\* is not yet initialized succeeds (and leaves status = Initialized, owner =
\* signer, the sponsor, the clamped fee and the data).
RegisterSucceeds ==
    \A signer \in Registrants :
        merchants[MerchantAddr(signer)].status = "Absent"
            => engine_register_merchant_result(signer, TRUE,
                   MerchantAddr(signer), TRUE) = "Ok"

\* C16: RegisterMerchant for a merchant record that is already Initialized
\* fails, whoever sends it, and leaves the record's owner, sponsor, fee and
\* data as they were: no step changes an initialized merchant record.
RegisteredMerchantIsKept ==
    /\ [][\A m \in MerchantAddrs :
              merchants[m].status = "Initialized" => merchants'[m] = merchants[m]]_vars
    /\ [](\A m \in MerchantAddrs, signer \in Signers, is_signer \in BOOLEAN,
             rent_exempt \in BOOLEAN :
              merchants[m].status = "Initialized"
                  => /\ register_merchant_result(signer, is_signer, m,
                                                 rent_exempt) # "Ok"
                     /\ engine_register_merchant_result(signer, is_signer, m,
                                                        rent_exempt) # "Ok")

\* a registered merchant, at a later time: its owner's second registration
\* is refused because the address is in use, and another signer's because
\* the address is not derived from that signer's key
SecondRegistrationRefused ==
    \E m \in MerchantAddrs :
        /\ merchants[m].status = "Initialized"
        /\ now > 0
        /\ register_merchant_result(merchants[m].owner, TRUE, m, TRUE)
               = "AccountAlreadyInUse"
        /\ register_merchant_result("bob", TRUE, m, TRUE) = "InvalidSeeds"

\* C17: a successful Checkout of amount A at time now persists an order
\* with status = Paid, expected_amount = paid_amount = A, merchant, mint and
\* token = the supplied merchant record, mint and escrow token account,
\* payer = signer, created = modified = now, and the caller's order_id and
\* secret.
CheckoutWritesPaidOrder ==
    [][last'.op = "ExpressCheckout"
         => LET o == last'.order
            IN \E signer \in Payers, merchant \in MerchantAddrs, mint \in Mints,
                  amount \in 0..MaxAmount, order_id \in OrderIds :
                   /\ express_checkout_result(signer, TRUE, o, merchant,
                          TokenAddr(o, mint), signer, PROGRAM_OWNER,
                          merchants[merchant].sponsor, mint, amount, order_id,
                          TRUE) = "Ok"
                   /\ tokens'[signer] = tokens[signer] - amount
                   /\ orders'[o].status = "Paid"
                   /\ orders'[o].expected_amount = amount
                   /\ orders'[o].paid_amount = amount
                   /\ orders'[o].merchant = merchant
                   /\ orders'[o].mint = mint
                   /\ orders'[o].token = TokenAddr(o, mint)
                   /\ orders'[o].payer = signer
                   /\ orders'[o].created = now
                   /\ orders'[o].modified = now
                   /\ orders'[o].order_id = order_id
                   /\ orders'[o].secret = "secret"]_vars

\* the last instruction checked out, after the clock had advanced, an order
\* of two tokens with a sponsored merchant
OrderCheckedOut ==
    \E o \in OrderAddrs :
        /\ last = Outcome("ExpressCheckout", o, "Ok")
        /\ now > 0
        /\ orders[o].status = "Paid"
        /\ orders[o].created = now /\ orders[o].modified = now
        /\ orders[o].expected_amount = 2 /\ orders[o].paid_amount = 2
        /\ orders[o].payer = "bob" /\ o = OrderAddr("bob", orders[o].order_id)
        /\ merchants[orders[o].merchant].sponsor # PROGRAM_OWNER

\* C18: after a successful Checkout of amount A the order's escrow token
\* account holds exactly A tokens and its owner is the custodial signer
\* address derived from the fixed seed and the program id, never an address
\* the caller chose.
EscrowOwnedByCustodian ==
    \A o \in OrderAddrs :
        orders[o].status = "Paid"
            => /\ escrow[orders[o].token].amount = orders[o].paid_amount
               /\ escrow[orders[o].token].owner = PDA

EscrowAddressesRederived ==
    \A o \in OrderAddrs :
        LET m == orders[o].merchant
            s == LinkedSubscription(o)
        IN /\ last = Outcome("ExpressCheckout", o, "Ok")
                 => escrow[orders[o].token].owner = PDA
           /\ (orders[o].status = "Paid" /\ escrow[orders[o].token].owner = PDA)
                 => /\ withdraw_payment_result(TRUE, o, m, orders[o].token,
                           merchants[m].owner, PROGRAM_OWNER,
                           merchants[m].sponsor, "carol") = "InvalidSeeds"
                    /\ withdraw_payment_result(TRUE, o, m, TokenAddr(o, MintB),
                           merchants[m].owner, PROGRAM_OWNER,
                           merchants[m].sponsor, PDA) = "InvalidSeeds"
           /\ ( /\ orders[o].status = "Paid"
                /\ escrow[orders[o].token].owner = PDA
                /\ ParseOrderSubscription(orders[o].data).ok
                /\ subs[s].status = "Initialized" )
                 => /\ cancel_subscription_result(orders[o].payer, TRUE, s, m, o,
                           orders[o].token, "carol") = "InvalidSeeds"
                    /\ cancel_subscription_result(orders[o].payer, TRUE, s, m, o,
                           TokenAddr(o, MintB), PDA) = "InvalidSeeds"

\* C21: Checkout fails, creating no order and moving no funds, when the
\* mint is not the mint of the payer's token account (MintNotEqual), when
\* the operator key supplied is not the compiled-in operator
\* (WrongProgramOwner), or when the sponsor key supplied is not the
\* merchant's stored sponsor (WrongSponsor); the lamports a checkout takes
\* from the payer are credited to the operator and to the merchant's
\* registered sponsor only.
CheckoutPaysRegisteredParties ==
    /\ [][last'.op = "ExpressCheckout"
            => LET o == last'.order
                   m == orders'[o].merchant
               IN \A k \in TokenOwners \ {orders'[o].payer} :
                      /\ lamports'[k] >= lamports[k]
                      /\ lamports'[k] > lamports[k]
                             => k \in {PROGRAM_OWNER, merchants[m].sponsor}]_vars
    /\ [](\A signer \in Payers, o \in OrderAddrs, m \in MerchantAddrs,
             seller_token \in TokenAddrs, buyer_token \in TokenOwners,
             program_owner \in TokenOwners, sponsor \in TokenOwners,
             mint \in Mints, order_id \in OrderIds, rent_exempt \in BOOLEAN :
              LET result == express_checkout_result(signer, TRUE, o, m,
                      seller_token, buyer_token, program_owner, sponsor, mint,
                      InitialTokens, order_id, rent_exempt)
              IN merchants[m].status = "Initialized"
                     => /\ mint # MintA => result = "MintNotEqual"
                        /\ (mint = MintA /\ program_owner # PROGRAM_OWNER)
                               => result = "WrongProgramOwner"
                        /\ ( /\ mint = MintA /\ program_owner = PROGRAM_OWNER
                             /\ sponsor # merchants[m].sponsor )
                               => result = "WrongSponsor")

\* the last instruction checked out with a sponsored merchant and paid the
\* operator and the sponsor; the same checkout naming the payer as sponsor,
\* another operator or another mint is refused
SponsorAndOperatorPaid ==
    \E o \in OrderAddrs :
        LET m == orders[o].merchant
        IN /\ last = Outcome("ExpressCheckout", o, "Ok")
           /\ merchants[m].sponsor = "alice"
           /\ lamports["alice"] > 0 /\ lamports[PROGRAM_OWNER] > 0
           /\ lamports["carol"] = 0
           /\ express_checkout_result(orders[o].payer, TRUE, o, m, orders[o].token,
                  orders[o].payer, PROGRAM_OWNER, orders[o].payer, MintA,
                  InitialTokens, orders[o].order_id, TRUE) = "WrongSponsor"
           /\ express_checkout_result(orders[o].payer, TRUE, o, m, orders[o].token,
                  orders[o].payer, "carol", "alice", MintA,
                  InitialTokens, orders[o].order_id, TRUE) = "WrongProgramOwner"
           /\ express_checkout_result(orders[o].payer, TRUE, o, m,
                  TokenAddr(o, MintB), orders[o].payer, PROGRAM_OWNER, "alice",
                  MintB, InitialTokens, orders[o].order_id, TRUE) = "MintNotEqual"

\* C22: Subscribe, Renew and Cancel each succeed only if the subscription
\* reference in the order's data names the subscription account supplied;
\* with the checks before it passing, each fails with WrongOrderAccount
\* when the reference names another address and with
\* InvalidSubscriptionData when the order's data carries no reference.
SubscriptionLinkChecked ==
    \A o \in OrderAddrs, s \in SubscriptionAddrs, name \in SubscriptionNames,
       q \in RenewQuantities, overflow_checks \in BOOLEAN :
        LET m == orders[o].merchant
            payer == orders[o].payer
            link == ParseOrderSubscription(orders[o].data)
            subscribed == subscribe_result(payer, TRUE, s, m, o, name, TRUE)
            renewed == renew_subscription_result(payer, TRUE, s, m, o, q,
                                                 overflow_checks)
            cancelled == cancel_subscription_result(payer, TRUE, s, m, o,
                                                    orders[o].token, PDA)
            expected == IF ~link.ok THEN "InvalidSubscriptionData"
                        ELSE IF link.subscription # s THEN "WrongOrderAccount"
                        ELSE "Ok"
        IN (orders[o].status = "Paid" /\ merchants[m].status = "Initialized")
               => /\ subscribed = "Ok" => expected = "Ok"
                  /\ renewed = "Ok" => expected = "Ok"
                  /\ cancelled = "Ok" => expected = "Ok"
                  /\ (expected # "Ok" /\ Len(SplitName(name)) = 2)
                         => subscribed = expected
                  /\ (expected # "Ok" /\ subs[s].status = "Initialized")
                         => renewed = expected /\ cancelled = expected

\* C23: only the order's payer acts on it as a subscriber: with the checks
\* before it passing, Subscribe, Renew and Cancel fail with WrongPayer when
\* the signer's key is not order.payer, and whatever the other accounts
\* none of them succeeds for such a signer, so no one but the payer cancels
\* an order or has it refunded.
OnlyPayerSubscribes ==
    \A signer \in Signers, o \in OrderAddrs, m \in MerchantAddrs,
       s \in SubscriptionAddrs :
        LET link == ParseOrderSubscription(orders[o].data)
        IN ( /\ signer # orders[o].payer
             /\ orders[o].status # "Absent"
             /\ merchants[m].status = "Initialized" )
               => /\ \A name \in SubscriptionNames, rent_exempt \in BOOLEAN :
                         subscribe_result(signer, TRUE, s, m, o, name,
                                          rent_exempt) = "WrongPayer"
                  /\ \A q \in RenewQuantities, overflow_checks \in BOOLEAN :
                         LET renewed == renew_subscription_result(signer, TRUE,
                                            s, m, o, q, overflow_checks)
                         IN /\ renewed # "Ok"
                            /\ (subs[s].status # "Absent" /\ link.ok
                                /\ link.subscription = s)
                                   => renewed = "WrongPayer"
                  /\ \A order_token \in TokenAddrs, pda \in {PDA, "carol"} :
                         LET cancelled == cancel_subscription_result(signer,
                                              TRUE, s, m, o, order_token, pda)
                         IN /\ cancelled # "Ok"
                            /\ ( /\ subs[s].status = "Initialized"
                                 /\ escrow[order_token].owner # ZeroKey
                                 /\ pda = PDA
                                 /\ link.ok /\ link.subscription = s )
                                   => cancelled = "WrongPayer"

\* the last instruction cancelled an order and refunded its payer; the same
\* Cancel, a Renew and a Subscribe signed by the merchant's owner are
\* refused because the signer is not the payer
CancelRefusedToOthers ==
    \E o \in OrderAddrs :
        LET m == orders[o].merchant
            s == LinkedSubscription(o)
        IN /\ last = Outcome("Cancel", o, "Ok")
           /\ orders[o].paid_amount > 0
           /\ tokens[orders[o].payer] = InitialTokens
           /\ merchants[m].owner # orders[o].payer
           /\ cancel_subscription_result(merchants[m].owner, TRUE, s, m, o,
                  orders[o].token, PDA) = "WrongPayer"
           /\ renew_subscription_result(merchants[m].owner, TRUE, s, m, o, 1,
                  FALSE) = "WrongPayer"
           /\ subscribe_result(merchants[m].owner, TRUE, s, m, o, subs[s].name,
                  TRUE) = "WrongPayer"

\* C24: with the checks before it passing, Subscribe, Renew and Cancel
\* resolve the package by comparing the part of the subscription name after
\* ':' with the names of the merchant's catalog: an unparsable catalog fails
\* with InvalidSubscriptionData, a name the catalog does not hold fails with
\* InvalidSubscriptionPackage, and otherwise the first entry of that name in
\* declaration order is the package, whose price and duration a Subscribe
\* charges and grants.
PackageResolvedByName ==
    /\ [](\A o \in OrderAddrs, s \in SubscriptionAddrs,
             name \in SubscriptionNames :
              LET m == orders[o].merchant
                  payer == orders[o].payer
                  catalog == ParsePackages(merchants[m].data)
                  held(n) == \E i \in 1..Len(catalog.packages) :
                                 catalog.packages[i].name = SplitName(n)[2]
                  first(n, i) ==
                      /\ catalog.packages[i].name = SplitName(n)[2]
                      /\ \A j \in 1..(i - 1) :
                             catalog.packages[j].name # SplitName(n)[2]
                  expected(n) ==
                      IF ~catalog.ok THEN {"InvalidSubscriptionData"}
                      ELSE IF ~held(n) THEN {"InvalidSubscriptionPackage"}
                      ELSE {"Ok", "NotFullyPaid", "WrongMint", "Panic",
                            "AddressWithSeedMismatch", "AccountAlreadyInUse",
                            "InvalidAccountData", "OwnerMismatch",
                            "InsufficientFunds"}
                  resolved(n) ==
                      (catalog.ok /\ held(n))
                          => \E i \in 1..Len(catalog.packages) :
                                 /\ first(n, i)
                                 /\ PackageOf(merchants[m], n)
                                        = catalog.packages[i]
              IN (orders[o].status = "Paid" /\ merchants[m].status = "Initialized")
                     => /\ ( /\ Len(SplitName(name)) = 2
                             /\ orders[o].order_id = SplitName(name)[2] )
                               => /\ subscribe_result(payer, TRUE,
                                         SubscriptionAddr(payer, name), m, o,
                                         name, TRUE) \in expected(name)
                                  /\ resolved(name)
                        /\ ( /\ subs[s].status = "Initialized"
                             /\ LinkedSubscription(o) = s
                             /\ Len(SplitName(subs[s].name)) = 2 )
                               => /\ renew_subscription_result(payer, TRUE, s, m,
                                         o, 1, FALSE) \in expected(subs[s].name)
                                  /\ cancel_subscription_result(payer, TRUE, s,
                                         m, o, orders[o].token, PDA)
                                         \in expected(subs[s].name)
                                  /\ resolved(subs[s].name))
    /\ [][\A s \in SubscriptionAddrs :
              (subs[s].status = "Absent" /\ subs'[s].status # "Absent")
                  => LET packages == ParsePackages(
                                         merchants[subs'[s].merchant].data).packages
                         package_name == SplitName(subs'[s].name)[2]
                     IN \E i \in 1..Len(packages) :
                            /\ packages[i].name = package_name
                            /\ \A j \in 1..(i - 1) : packages[j].name # package_name
                            /\ subs'[s].period_end = now + packages[i].duration
                            /\ packages[i].price * packages[i].duration
                                   <= orders[last'.order].paid_amount]_vars

\* the last instruction subscribed to the package "t" of a catalog that
\* holds two entries of that name: the subscription runs for the duration
\* of the first entry, which the second entry would not give
FirstPackageOfNameTaken ==
    \E o \in OrderAddrs, s \in SubscriptionAddrs :
        LET packages == ParsePackages(merchants[orders[o].merchant].data).packages
        IN /\ last = Outcome("Subscribe", o, "Ok")
           /\ subs[s].status = "Initialized" /\ subs[s].joined = now
           /\ Len(packages) = 2
           /\ packages[1].name = packages[2].name
           /\ packages[1].name = SplitName(subs[s].name)[2]
           /\ packages[1].duration # packages[2].duration
           /\ subs[s].period_end = now + packages[1].duration

\* C27: Checkout, Withdraw, Subscribe, Renew and Cancel fail when the
\* merchant record supplied has status Uninitialized, with
\* UninitializedAccount when the checks before that one pass; every order
\* and subscription that exists names a merchant that is Initialized.
MerchantMustBeInitialized ==
    /\ \A o \in OrderAddrs :
           orders[o].status \notin {"Absent", "Uninitialized"}
               => merchants[orders[o].merchant].status = "Initialized"
    /\ \A s \in SubscriptionAddrs :
           subs[s].status # "Absent"
               => merchants[subs[s].merchant].status = "Initialized"
    /\ \A m \in MerchantAddrs, signer \in Payers, o \in OrderAddrs,
          s \in SubscriptionAddrs, mint \in Mints, sponsor \in TokenOwners :
           LET checkout == express_checkout_result(signer, TRUE, o, m,
                               TokenAddr(o, mint), signer, PROGRAM_OWNER,
                               sponsor, mint, 1, "t", TRUE)
               withdraw == withdraw_payment_result(TRUE, o, m,
                               TokenAddr(o, mint), sponsor, PROGRAM_OWNER,
                               sponsor, PDA)
               subscribe == subscribe_result(signer, TRUE, s, m, o, "a:t", TRUE)
               renew == renew_subscription_result(signer, TRUE, s, m, o, 1, FALSE)
               cancel == cancel_subscription_result(signer, TRUE, s, m, o,
                             TokenAddr(o, mint), PDA)
           IN merchants[m].status = "Uninitialized"
                  => /\ checkout = "UninitializedAccount"
                     /\ "Ok" \notin {withdraw, subscribe, renew, cancel}
                     /\ orders[o].status # "Absent"
                            => /\ withdraw = "UninitializedAccount"
                               /\ subscribe = "UninitializedAccount"
                     /\ (orders[o].status # "Absent" /\ subs[s].status # "Absent")
                            => renew = "UninitializedAccount"
                     /\ ( /\ orders[o].status # "Absent"
                          /\ subs[s].status = "Initialized"
                          /\ escrow[TokenAddr(o, mint)].owner # ZeroKey )
                            => cancel = "UninitializedAccount"

\* a merchant account that was allocated and never registered, beside a
\* paid order and its subscription with another merchant: a Checkout, and a
\* Withdraw, a Renew and a Cancel of that order, that name the unregistered
\* merchant are refused
UnregisteredMerchantRefused ==
    \E m \in MerchantAddrs, o \in OrderAddrs :
        /\ merchants[m].status = "Uninitialized"
        /\ orders[o].status = "Paid"
        /\ ParseOrderSubscription(orders[o].data).ok
        /\ subs[LinkedSubscription(o)].status = "Initialized"
        /\ express_checkout_result(orders[o].payer, TRUE, o, m, orders[o].token,
               orders[o].payer, PROGRAM_OWNER, PROGRAM_OWNER, MintA, 1, "t",
               TRUE) = "UninitializedAccount"
        /\ withdraw_payment_result(TRUE, o, m, orders[o].token, "alice",
               PROGRAM_OWNER, PROGRAM_OWNER, PDA) = "UninitializedAccount"
        /\ renew_subscription_result(orders[o].payer, TRUE, LinkedSubscription(o),
               m, o, 1, FALSE) = "UninitializedAccount"
        /\ cancel_subscription_result(orders[o].payer, TRUE,
               LinkedSubscription(o), m, o, orders[o].token, PDA)
               = "UninitializedAccount"

\* C28: with the checks before them passing, Withdraw fails with
\* InvalidAccountData when the merchant recorded in the order is not the
\* merchant record supplied, or the escrow token account supplied is not
\* the token recorded in the order; whatever the other accounts such a
\* Withdraw does not succeed, and no Withdraw of an order has credited the
\* owner of another merchant.
WithdrawNeedsOwnMerchant ==
    /\ \A o \in OrderAddrs, m \in MerchantAddrs :
           (merchants[m].status = "Initialized" /\ m # orders[o].merchant)
               => merchants[m].owner \notin paid_to[o]
    /\ \A o \in OrderAddrs, m \in MerchantAddrs,
          order_payment_token \in TokenAddrs :
           ( /\ orders[o].status \notin {"Absent", "Uninitialized"}
             /\ merchants[m].status = "Initialized"
             /\ m # orders[o].merchant \/ order_payment_token # orders[o].token )
               => /\ withdraw_payment_result(TRUE, o, m, order_payment_token,
                         merchants[m].owner, PROGRAM_OWNER, merchants[m].sponsor,
                         PDA) = "InvalidAccountData"
                  /\ \A is_signer \in BOOLEAN, merchant_token \in TokenOwners,
                        sponsor_token \in TokenOwners, pda \in {PDA, "carol"} :
                         withdraw_payment_result(is_signer, o, m,
                             order_payment_token, merchant_token, PROGRAM_OWNER,
                             sponsor_token, pda) # "Ok"

\* two registered merchants and a paid order of one of them that can be
\* withdrawn: the Withdraw that names the other merchant and its accounts,
\* and the Withdraw from another escrow token account, are refused
OtherMerchantRefused ==
    \E o \in OrderAddrs, m \in MerchantAddrs :
        /\ orders[o].status = "Paid" /\ orders[o].paid_amount > 0
        /\ merchants[m].status = "Initialized"
        /\ m # orders[o].merchant
        /\ WellFormedWithdraw(o, orders[o].merchant) = "Ok"
        /\ WellFormedWithdraw(o, m) = "InvalidAccountData"
        /\ withdraw_payment_result(TRUE, o, orders[o].merchant,
               TokenAddr(o, MintB), merchants[orders[o].merchant].owner,
               PROGRAM_OWNER, merchants[orders[o].merchant].sponsor, PDA)
               = "InvalidAccountData"

PaidAmountIsExpectedAmount ==
    /\ [](\A o \in OrderAddrs :
              orders[o].status \notin {"Absent", "Uninitialized"}
                  => orders[o].paid_amount = orders[o].expected_amount)
    /\ [][\A o \in OrderAddrs :
              orders[o].status \notin {"Absent", "Uninitialized"}
                  => /\ orders'[o].paid_amount = orders[o].paid_amount
                     /\ orders'[o].expected_amount = orders[o].expected_amount]_vars

\* an order of two tokens that was withdrawn and one that was refunded on
\* Cancel: either still records two tokens as paid and as expected
SettledOrderKeepsAmounts ==
    \E o \in OrderAddrs :
        /\ last.op \in {"Withdraw", "Cancel"} /\ last.order = o
        /\ orders[o].status \in TerminalStatuses
        /\ escrow[orders[o].token].amount = 0
        /\ orders[o].paid_amount = 2 /\ orders[o].expected_amount = 2

\* C32: Subscribe, Renew and Cancel never succeed on an order whose status
\* is not Paid, and fail with NotPaid as soon as the checks that come before
\* the status check pass (a signed request for an initialized merchant by
\* the order's payer, and for Renew and Cancel an existing subscription that
\* the order's data names).  A Withdrawn or Cancelled order keeps its
\* status, so an order withdrawn before Subscribe stays unusable for the
\* three instructions, and a second Cancel of a cancelled order fails.
NotPaidOrderRefused ==
    /\ [](\A o \in OrderAddrs, signer \in Signers, is_signer \in BOOLEAN,
             s \in SubscriptionAddrs, m \in MerchantAddrs :
              orders[o].status # "Paid"
                  => LET by_payer == /\ is_signer
                                     /\ signer = orders[o].payer
                                     /\ merchants[m].status = "Initialized"
                         linked == /\ by_payer
                                   /\ ParseOrderSubscription(orders[o].data).ok
                                   /\ LinkedSubscription(o) = s
                                   /\ subs[s].status = "Initialized"
                     IN /\ \A name \in SubscriptionNames, rent_exempt \in BOOLEAN :
                             LET result == subscribe_result(signer, is_signer, s,
                                               m, o, name, rent_exempt)
                             IN /\ result # "Ok"
                                /\ by_payer => result = "NotPaid"
                        /\ \A r \in RenewRequests :
                             LET result == renew_subscription_result(signer,
                                               is_signer, s, m, o, r[1], r[2])
                             IN /\ result # "Ok"
                                /\ linked => result = "NotPaid"
                        /\ \A order_token \in TokenAddrs, pda \in {PDA, "carol"} :
                             LET result == cancel_subscription_result(signer,
                                               is_signer, s, m, o, order_token, pda)
                             IN /\ result # "Ok"
                                /\ ( /\ linked
                                     /\ order_token = orders[o].token
                                     /\ pda = PDA ) => result = "NotPaid")
    /\ [][\A o \in OrderAddrs :
              orders[o].status \in TerminalStatuses
                  => orders'[o].status = orders[o].status]_vars

\* an order that was withdrawn before anyone subscribed with it: the
\* payer's Subscribe for the merchant's package fails with NotPaid
WithdrawnBeforeSubscribe ==
    \E o \in OrderAddrs :
        /\ orders[o].status = "Withdrawn"
        /\ \A s \in SubscriptionAddrs : subs[s].status = "Absent"
        /\ PackageIndex(merchants[orders[o].merchant], "a:t") > 0
        /\ subscribe_result(orders[o].payer, TRUE,
               SubscriptionAddr(orders[o].payer, "a:t"), orders[o].merchant, o,
               "a:t", TRUE) = "NotPaid"

\* the subscriptions that were created with an order: Subscribe takes the
\* order's payer as signer and owner, and a name whose package part is the
\* order's order_id
BackedBy(order) ==
    {s \in SubscriptionAddrs :
        /\ subs[s].status = "Initialized"
        /\ subs[s].owner = orders[order].payer
        /\ subs[s].merchant = orders[order].merchant
        /\ Len(SplitName(subs[s].name)) = 2
        /\ SplitName(subs[s].name)[2] = orders[order].order_id}

\* C33: a Paid order backs at most one subscription: after a Subscribe has
\* succeeded with an order, no Subscribe that creates another subscription
\* record succeeds with the same order.
OrderBacksOneSubscription ==
    \A o \in OrderAddrs :
        orders[o].status # "Absent" => Cardinality(BackedBy(o)) <= 1

\* C34: a successful Renew changes neither the order record nor any token
\* or native balance and leaves the order Paid and unconsumed: the request
\* that has just succeeded passes the payment check again in the state it
\* leaves, and each Renew moves the end of the period (or the clock, once
\* the period has ended) forward by quantity * duration.
RenewLeavesOrderUnconsumed ==
    [][\A o \in OrderAddrs :
         (last'.op = "Renew" /\ last'.order = o)
         => LET s == LinkedSubscription(o)
                m == orders[o].merchant
                duration == PackageOf(merchants[m], subs[s].name).duration
            IN /\ orders' = orders
               /\ UNCHANGED <<escrow, tokens, lamports, merchants>>
               /\ orders[o].status = "Paid"
               /\ \E r \in RenewRequests :
                      /\ renew_subscription_result(orders[o].payer, TRUE, s, m,
                             o, r[1], r[2]) = "Ok"
                      /\ (renew_subscription_result(orders[o].payer, TRUE, s, m,
                              o, r[1], r[2]) = "Ok")'
                      /\ subs'[s].period_end
                             = (IF now > subs[s].period_end
                                THEN now ELSE subs[s].period_end)
                                   + duration * r[1]]_vars

\* renewals of two periods in all, at price 1, on an order of two tokens
\* that Subscribe had already taken as payment: the order is still Paid, its
\* escrow still holds the two tokens, and one more period would be granted
OrderPaysRenewalsAgain ==
    \E o \in OrderAddrs :
        LET s == LinkedSubscription(o)
        IN /\ last = Outcome("Renew", o, "Ok")
           /\ orders[o].status = "Paid"
           /\ orders[o].paid_amount = 2
           /\ escrow[orders[o].token].amount = 2
           /\ subs[s].joined = 0
           /\ subs[s].period_end = 6
           /\ PackageOf(merchants[orders[o].merchant], subs[s].name).price = 1
           /\ renew_subscription_result(orders[o].payer, TRUE, s,
                  orders[o].merchant, o, 1, FALSE) = "Ok"

\* C35: in every reachable state the escrow account of a Paid order holds
\* exactly paid_amount, and the escrow account of a Withdrawn or Cancelled
\* order holds nothing: no tokens stay behind in the escrow of a terminal
\* order.
EscrowFollowsStatus ==
    \A o \in OrderAddrs :
        /\ orders[o].status = "Paid"
               => escrow[orders[o].token].amount = orders[o].paid_amount
        /\ orders[o].status \in TerminalStatuses
               => escrow[orders[o].token].amount = 0

\* C36: a successful Withdraw or Cancel changes only the status and the
\* modified field of its order (created, merchant, mint, token, payer,
\* expected_amount, paid_amount, order_id, secret and data stay as they
\* were), and no instruction other than RegisterMerchant changes the owner,
\* sponsor, fee or data of a merchant record.
SettlementWritesStatusAndModified ==
    [][/\ \A o \in OrderAddrs :
              (last'.op \in {"Withdraw", "Cancel"} /\ last'.order = o)
                  => /\ orders'[o] = [orders[o] EXCEPT
                                          !.status = orders'[o].status,
                                          !.modified = orders'[o].modified]
                     /\ orders'[o].status
                            = (IF last'.op = "Withdraw" THEN "Withdrawn"
                               ELSE "Cancelled")
                     /\ orders'[o].modified = now
       /\ \A m \in MerchantAddrs :
              ( \/ merchants'[m].owner # merchants[m].owner
                \/ merchants'[m].sponsor # merchants[m].sponsor
                \/ merchants'[m].fee # merchants[m].fee
                \/ merchants'[m].data # merchants[m].data )
                  => last'.op = "RegisterMerchant"]_vars

\* an order cancelled after it was created: it still carries the merchant,
\* payer, amounts, order id, secret and data that Checkout wrote, and its
\* merchant's record is the one registered
CancelledOrderKeepsFields ==
    \E o \in OrderAddrs :
        /\ last = Outcome("Cancel", o, "Ok")
        /\ orders[o].status = "Cancelled"
        /\ orders[o].created = 0 /\ orders[o].modified = 1
        /\ orders[o].merchant = MerchantAddr("carol")
        /\ orders[o].payer = "bob"
        /\ orders[o].mint = MintA
        /\ orders[o].token = TokenAddr(o, MintA)
        /\ orders[o].expected_amount = 2 /\ orders[o].paid_amount = 2
        /\ orders[o].order_id = "t" /\ orders[o].secret = "secret"
        /\ orders[o].data = OrderSubscriptionDoc(SubscriptionFor("bob", "t"))
        /\ merchants[orders[o].merchant].data = FlatCatalog
        /\ merchants[orders[o].merchant].sponsor = "alice"

\* C37: Subscribe given a name without a ':' separator, and Renew and
\* Cancel given a subscription whose name has none, are rejected with an
\* error of the program and change no state; they do not abort abnormally.
NameWithoutSeparatorRejected ==
    \A signer \in Signers, s \in SubscriptionAddrs, m \in MerchantAddrs,
       o \in OrderAddrs :
        /\ \A name \in SubscriptionNames :
               Len(SplitName(name)) < 2
                   => subscribe_result(signer, TRUE, s, m, o, name, TRUE)
                          \notin {"Ok", "Panic"}
        /\ (subs[s].status = "Initialized" /\ Len(SplitName(subs[s].name)) < 2)
               => /\ \A r \in RenewRequests :
                         renew_subscription_result(signer, TRUE, s, m, o,
                             r[1], r[2]) \notin {"Ok", "Panic"}
                  /\ cancel_subscription_result(signer, TRUE, s, m, o,
                         orders[o].token, PDA) \notin {"Ok", "Panic"}

\* fees a registration may ask for: none, dust, and values around the
\* minimum fee and at the top of u64
FeeRequests == {0, 1, 99, 100, MIN_FEE_IN_LAMPORTS - 1, MIN_FEE_IN_LAMPORTS,
                MIN_FEE_IN_LAMPORTS + 1, MIN_FEE_IN_LAMPORTS + 333,
                MIN_FEE_IN_LAMPORTS + 334, U64 - 1}

\* the sponsor's and the operator's share of a fee are those of the claim
SharesOfStoredFee(fee) ==
    LET shares == get_amounts(fee, SPONSOR_FEE)
    IN /\ fee >= MIN_FEE_IN_LAMPORTS
       /\ shares[2] = (fee * 3) \div 1000
       /\ shares[2] >= 15
       /\ shares[1] = fee - shares[2]
       /\ shares[1] > shares[2]
       /\ shares[1] > 0 /\ shares[2] > 0

\* C38: every fee a registration stores is at least 5000, so the dust
\* waiver never applies to the split of the fee at Checkout: with a
\* third-party sponsor the sponsor's share is floor(fee * 3 / 1000) >= 15,
\* the operator's share is the fee minus that and strictly larger, and a
\* Checkout credits both with these shares, neither of which is 0.
StoredFeeSplitsWithoutWaiver ==
    /\ [](/\ \A v \in FeeRequests : SharesOfStoredFee(MerchantFee(SomeFee(v)))
          /\ SharesOfStoredFee(MerchantFee(NoFee))
          /\ \A m \in MerchantAddrs :
                 merchants[m].status = "Initialized"
                     => /\ SharesOfStoredFee(merchants[m].fee)
                        /\ merchants[m].sponsor # PROGRAM_OWNER
                               => CheckoutFees(merchants[m])
                                      = <<merchants[m].fee
                                              - (merchants[m].fee * 3) \div 1000,
                                          (merchants[m].fee * 3) \div 1000>>)
    /\ [][\A o \in OrderAddrs :
              (last'.op = "ExpressCheckout" /\ last'.order = o)
                  => LET m == orders'[o].merchant
                         fee == merchants[m].fee
                         sponsor == merchants[m].sponsor
                     IN sponsor # PROGRAM_OWNER
                            => /\ lamports'[sponsor] - lamports[sponsor]
                                      = (fee * 3) \div 1000
                               /\ lamports'[sponsor] - lamports[sponsor] >= 15
                               /\ lamports'[PROGRAM_OWNER] - lamports[PROGRAM_OWNER]
                                      = fee - (fee * 3) \div 1000
                               /\ lamports'[PROGRAM_OWNER] - lamports[PROGRAM_OWNER]
                                      > lamports'[sponsor] - lamports[sponsor]]_vars

\* a merchant who asked for a fee of 1 holds the minimum fee, and the last
\* instruction checked out with the sponsored merchant: its sponsor and the
\* operator both received a share
MinimumFeeStoredAndSplit ==
    \E o \in OrderAddrs :
        /\ last = Outcome("ExpressCheckout", o, "Ok")
        /\ merchants[orders[o].merchant].sponsor = "alice"
        /\ merchants[MerchantAddr("alice")].status = "Initialized"
        /\ merchants[MerchantAddr("alice")].data = DEFAULT_DATA
        /\ merchants[MerchantAddr("alice")].fee = MIN_FEE_IN_LAMPORTS
        /\ lamports["alice"] >= 15
        /\ lamports[PROGRAM_OWNER] > lamports["alice"]

(***************************************************************************)
(* Checkout through engine::pay::process_order, which the express and the  *)
(* chain checkout both call.  The chain checkout names its order after the *)
(* clock, so its orders live at addresses of their own: SpecChain follows  *)
(* registrations and checkouts over those addresses.                       *)
(***************************************************************************)
\* format!("{timestamp}"): the decimal digits of the timestamp
Decimal(timestamp) == ToString(timestamp)

ChainOrderIds == {Decimal(t) : t \in 0..MaxTime}
ChainOrderAddrs == {OrderAddr(k, i) : k \in Payers, i \in ChainOrderIds}
ChainTokenAddrs == {TokenAddr(o, m) : o \in ChainOrderAddrs, m \in Mints}

\* Option<BTreeMap<String, u64>>
NoItems == [some |-> FALSE, value |-> <<>>]
SomeItems(items) == [some |-> TRUE, value |-> items]
ChainItems == {"t" :> 2 @@ "z" :> 1}

\* an order account and the manifest recorded with it
WithItems(order_account, order_items) ==
    [order_items |-> order_items] @@ order_account

\* the order account without its manifest
WithoutItems(order_account) ==
    [f \in DOMAIN order_account \ {"order_items"} |-> order_account[f]]

process_order_result(signer, is_signer, order, merchant, seller_token, buyer_token, program_owner, sponsor, mint, amount, order_id, rent_exempt) ==
    express_checkout_result(signer, is_signer, order, merchant, seller_token,
        buyer_token, program_owner, sponsor, mint, amount, order_id, rent_exempt)

\* what a process_order call that returns Ok leaves behind
process_order(signer, order, merchant, seller_token, buyer_token, program_owner, sponsor, mint, pda, amount, order_id, secret, maybe_data, order_items) ==
    LET fees == CheckoutFees(merchants[merchant])
    IN /\ escrow' = [escrow EXCEPT ![seller_token] =
                         [owner |-> pda, amount |-> amount]]
       /\ tokens' = [tokens EXCEPT ![buyer_token] = @ - amount]
       /\ lamports' = [lamports EXCEPT ![signer] = @ - fees[1] - fees[2],
                                       ![program_owner] = @ + fees[1],
                                       ![sponsor] = @ + fees[2]]
       /\ orders' = [orders EXCEPT ![order] =
              WithItems(NewOrder(now, merchant, mint, seller_token, signer,
                                 amount, order_id, secret, maybe_data),
                        order_items)]
       /\ UNCHANGED <<now, merchants, subs, history, ga>>

\* an order id that does not follow the clock
ChainOrderIdFixed(timestamp) == Decimal(0)

\* the order id a chain checkout passes on
ChainOrderId(timestamp) == Decimal(timestamp)

\* the secret a chain checkout passes on
ChainSecret == ""

chain_checkout_result(signer, is_signer, order, merchant, seller_token, buyer_token, program_owner, sponsor, mint, amount, rent_exempt) ==
    process_order_result(signer, is_signer, order, merchant, seller_token,
        buyer_token, program_owner, sponsor, mint, amount, ChainOrderId(now),
        rent_exempt)

process_chain_checkout(signer, is_signer, order, merchant, seller_token, buyer_token, program_owner, sponsor, mint, pda, amount, order_items, maybe_data, rent_exempt) ==
    LET result == chain_checkout_result(signer, is_signer, order, merchant,
                      seller_token, buyer_token, program_owner, sponsor, mint,
                      amount, rent_exempt)
    IN IF result # "Ok" THEN Rejected
       ELSE /\ process_order(signer, order, merchant, seller_token,
                   buyer_token, program_owner, sponsor, mint, pda, amount,
                   ChainOrderId(now), ChainSecret, maybe_data,
                   SomeItems(order_items))
            /\ last' = Outcome("ChainCheckout", order, "Ok")

\* engine::pay::express, the express checkout that goes through process_order
engine_express_checkout(signer, is_signer, order, merchant, seller_token, buyer_token, program_owner, sponsor, mint, pda, amount, order_id, secret, maybe_data, rent_exempt) ==
    LET result == process_order_result(signer, is_signer, order, merchant,
                      seller_token, buyer_token, program_owner, sponsor, mint,
                      amount, order_id, rent_exempt)
    IN IF result # "Ok" THEN Rejected
       ELSE /\ process_order(signer, order, merchant, seller_token,
                   buyer_token, program_owner, sponsor, mint, pda, amount,
                   order_id, secret, maybe_data, NoItems)
            /\ last' = Outcome("ExpressCheckout", order, "Ok")

AbsentOrderWithItems == WithItems(AbsentOrder, NoItems)

InitChain ==
    /\ now = 0
    /\ merchants = [m \in MerchantAddrs |-> AbsentMerchant]
    /\ orders = [o \in ChainOrderAddrs |-> AbsentOrderWithItems]
    /\ subs = [s \in SubscriptionAddrs |-> AbsentSubscription]
    /\ escrow = [t \in ChainTokenAddrs |-> AbsentToken]
    /\ tokens = [k \in TokenOwners |-> IF k \in Payers THEN InitialTokens ELSE 0]
    /\ lamports = [k \in TokenOwners |-> IF k \in Payers THEN InitialLamports ELSE 0]
    /\ released = [t \in ChainTokenAddrs |-> 0]
    /\ settled = [o \in ChainOrderAddrs |-> 0]
    /\ paid_to = [o \in ChainOrderAddrs |-> {}]
    /\ last = Outcome("none", NoOrder, "Ok")
    /\ ga = IdleFrame

\* <<amount, fault>>: a checkout the payer can afford, one he cannot, and
\* each fault that an instruction is refused for
ChainRequests ==
    {<<InitialTokens, "none">>, <<MaxAmount, "none">>}
        \cup {<<InitialTokens, f>> : f \in CheckoutFaults \ {"wrong pda", "no data"}}

\* the order address of another moment
OtherChainOrder(signer) == OrderAddr(signer, Decimal((now + 1) % (MaxTime + 1)))

ChainCheckout ==
    \E signer \in Payers, merchant \in MerchantAddrs, r \in ChainRequests,
       order_items \in ChainItems :
        LET amount == r[1]
            fault == r[2]
            order == IF fault = "wrong order" THEN OtherChainOrder(signer)
                     ELSE OrderAddr(signer, Decimal(now))
            mint == IF fault = "wrong mint" THEN MintB ELSE MintA
        IN process_chain_checkout(signer, fault # "unsigned", order, merchant,
               IF fault = "wrong escrow" THEN TokenAddr(order, MintB)
               ELSE TokenAddr(order, mint),
               IF fault = "wrong buyer" THEN "alice" ELSE signer,
               IF fault = "wrong operator" THEN "carol" ELSE PROGRAM_OWNER,
               IF fault = "wrong sponsor" THEN "bob"
               ELSE merchants[merchant].sponsor,
               mint,
               IF fault = "wrong pda" THEN "carol" ELSE PDA,
               amount, order_items,
               IF fault = "no data" THEN None
               ELSE Some(OrderSubscriptionDoc(SubscriptionFor(signer, "t"))),
               fault # "not rent exempt")

EngineExpressCheckout ==
    \E signer \in Payers, merchant \in MerchantAddrs, r \in ChainRequests,
       order_id \in ChainOrderIds, secret \in {"secret"} :
        LET amount == r[1]
            fault == r[2]
            order == IF fault = "wrong order" THEN OtherChainOrder(signer)
                     ELSE OrderAddr(signer, order_id)
            mint == IF fault = "wrong mint" THEN MintB ELSE MintA
        IN /\ fault = "wrong order" => order_id = Decimal(now)
           /\ engine_express_checkout(signer, fault # "unsigned", order, merchant,
               IF fault = "wrong escrow" THEN TokenAddr(order, MintB)
               ELSE TokenAddr(order, mint),
               IF fault = "wrong buyer" THEN "alice" ELSE signer,
               IF fault = "wrong operator" THEN "carol" ELSE PROGRAM_OWNER,
               IF fault = "wrong sponsor" THEN "bob"
               ELSE merchants[merchant].sponsor,
               mint,
               IF fault = "wrong pda" THEN "carol" ELSE PDA,
               amount, order_id, secret,
               IF fault = "no data" THEN None
               ELSE Some(OrderSubscriptionDoc(SubscriptionFor(signer, "t"))),
               fault # "not rent exempt")

NextChain ==
    \/ Tick
    \/ RegisterMerchant
    \/ ChainCheckout
    \/ EngineExpressCheckout

SpecChain == InitChain /\ [][NextChain]_vars

RegisterFreeMerchant ==
    \E fault \in RegisterFaults :
        process_register_merchant("alice", fault # "unsigned",
            IF fault = "wrong address"
            THEN OtherMerchant(MerchantAddr("alice")) ELSE MerchantAddr("alice"),
            NoSponsor, NoFee, Some(FreeCatalog), fault # "not rent exempt")

NextFree ==
    \/ Tick
    \/ RegisterFreeMerchant
    \/ ExpressCheckout
    \/ Subscribe
    \/ Renew

SpecFree == Init /\ [][NextFree]_vars

\* C31: whatever Subscribe and Renew calls were made (any quantity, 0 and
\* negative ones included, any catalogue price and duration), every
\* subscription has period_start <= period_end and joined <= period_end, and
\* a successful Renew never makes period_end smaller than it was.
PeriodEndNeverShrinks ==
    /\ [](\A s \in SubscriptionAddrs :
              subs[s].status = "Initialized"
                  => /\ subs[s].period_start <= subs[s].period_end
                     /\ subs[s].joined <= subs[s].period_end)
    /\ [][\A s \in SubscriptionAddrs :
              (last'.op = "Renew" /\ subs[s].status = "Initialized")
                  => subs'[s].period_end >= subs[s].period_end]_vars

(***************************************************************************)
(* The fee splitter on its own: every call get_amounts(amount, rate) with  *)
(* an amount that is small or near the top of u64                          *)
(***************************************************************************)
SplitAmounts == (0..MaxSplitAmount) \cup ((U64 - 3)..(U64 - 1))
\* per-mille rates, and two rates above 1000
SplitRates == {0, 1, 3, 9, 10, 500, 999, 1000, 1001, 2000}

\* `amount - fee_amount` leaves u64: the fee is larger than the amount
SubtractionUnderflows(amount, fee_percentage) ==
    amount >= 100 /\ get_amounts(amount, fee_percentage)[2] > amount

InitFee ==
    /\ InitAccounts
    /\ ga \in {[pc |-> "call", amount |-> a, rate |-> r, take_home |-> 0, fee |-> 0] :
                   a \in SplitAmounts, r \in SplitRates}

\* the call returns; where the subtraction underflows it returns the wrapped
\* difference, or panics in a build with overflow checks
GetAmounts ==
    /\ ga.pc = "call"
    /\ \E overflow_checks \in BOOLEAN :
           IF overflow_checks /\ SubtractionUnderflows(ga.amount, ga.rate)
           THEN ga' = [ga EXCEPT !.pc = "panic"]
           ELSE ga' = [ga EXCEPT !.pc = "return",
                                 !.take_home = get_amounts(ga.amount, ga.rate)[1],
                                 !.fee = get_amounts(ga.amount, ga.rate)[2]]
    /\ UNCHANGED <<now, ledger, history, last>>

NextFee == GetAmounts

SpecFee == InitFee /\ [][NextFee]_vars

(***************************************************************************)
(* Properties of the fee splitter (under SpecFee)                          *)
(***************************************************************************)
PerMille == 0..1000

\* C8: for every amount a and every per-mille rate r in 0..1000, the pair
\* (t, f) that get_amounts(a, r) returns has t + f = a, and f = 0 with t = a
\* whenever a < 100.
SplitConservesAmount ==
    (ga.pc = "return" /\ ga.rate \in PerMille)
        => /\ ga.take_home + ga.fee = ga.amount
           /\ ga.amount < 100 => (ga.fee = 0 /\ ga.take_home = ga.amount)

\* the largest dust amount, split at the highest rate, came back whole
DustAmountSplit ==
    /\ ga.pc = "return"
    /\ ga.amount = 99 /\ ga.rate = 1000
    /\ ga.take_home = 99 /\ ga.fee = 0

\* the fee of the contract, in unbounded arithmetic
ContractFee(a, r) == IF (a * r) \div 1000 > 1 THEN (a * r) \div 1000 ELSE 1

\* C9 as stated: for every amount a >= 100 and every rate r, get_amounts
\* returns fee = max(1, floor(a * r / 1000)) and take_home = a - fee with
\* neither overflow nor underflow of the 64-bit results.
SplitExactAtEveryRate ==
    (ga.pc # "call" /\ ga.amount >= 100)
        => /\ ga.pc = "return"
           /\ ga.fee = ContractFee(ga.amount, ga.rate)
           /\ ga.take_home = ga.amount - ga.fee
           /\ ga.take_home \in 0..(U64 - 1)

\* C9: for every amount a >= 100 and every per-mille rate r in 0..1000,
\* get_amounts returns fee = max(1, floor(a * r / 1000)) and take_home =
\* a - fee, both within the 64-bit range although the product a * r is not,
\* and the call does not panic; and (100, 3) gives (99, 1), (2000, 3) gives
\* (1994, 6), (1000, 10) gives (990, 10).
SplitFeeIsContractFee ==
    /\ (ga.pc # "call" /\ ga.amount >= 100 /\ ga.rate \in PerMille)
        => /\ ga.pc = "return"
           /\ ga.fee = ContractFee(ga.amount, ga.rate)
           /\ ga.take_home = ga.amount - ga.fee
           /\ ga.fee \in 0..(U64 - 1)
           /\ ga.take_home \in 0..(U64 - 1)
    /\ (ga.pc = "return" /\ ga.amount = 100 /\ ga.rate = 3)
        => (ga.take_home = 99 /\ ga.fee = 1)
    /\ (ga.pc = "return" /\ ga.amount = 2000 /\ ga.rate = 3)
        => (ga.take_home = 1994 /\ ga.fee = 6)
    /\ (ga.pc = "return" /\ ga.amount = 1000 /\ ga.rate = 10)
        => (ga.take_home = 990 /\ ga.fee = 10)

\* the largest amount was split at a rate whose product with it leaves u64
WideProductSplit ==
    /\ ga.pc = "return"
    /\ ga.amount = U64 - 1 /\ ga.rate = 500
    /\ ga.amount * ga.rate >= U64
    /\ ga.fee = (U64 - 1) \div 2

====
